---- MODULE Spec2Model ----
(***************************************************************************)
(* Decentralized-Time-Bank: the socket.io chat / presence / call-signaling *)
(* relay of the backend (src/unnamed/part_000) and the VideoCall endpoint  *)
(* (src/unnamed/part_001).                                                 *)
(*                                                                         *)
(* The relay is a single Node.js event loop: every socket.on handler runs  *)
(* to completion, except where it awaits the durable store; an await cuts  *)
(* the handler into two actions.                                           *)
(***************************************************************************)
EXTENDS Integers, Sequences, FiniteSets, TLC

\* ------------------------------------------------------------------ bounds
\* number of inbound client events (emit, close) handled in one run of the
\* presence specification
MaxPresenceEvents == 3
\* ... and of the chat specification
MaxChatEvents == 3
\* ... and of the relay specification
MaxRelayEvents == 3
\* number of events the two VideoCall components emit in one run of the
\* call specification
MaxCallEmits == 4
\* number of events the two VideoCall components emit in one run of the
\* hang-up specification
MaxHangUpEmits == 7
\* number of events the relay handles, and of messages the Chat component
\* sends, in one run of the send specification
MaxSendEvents == 3
\* number of events the clients send in one run of the marketplace
\* specification
MaxMarketEvents == 4
\* number of events the clients send in one run of the end-of-call
\* specification
MaxEndOfCallEvents == 3
\* number of events the clients send in one run of the typing specification
MaxTypingEvents == 3
\* number of events the clients send in one run of the idle-timer
\* specification
MaxIdleEvents == 5
\* number of events the clients send in one run of the message-id
\* specification
MaxIdEvents == 3
\* number of messages in a chat-history the Chat component is sent
MaxHistoryLen == 2
\* inbound events of the call-duration specification, and the longest call
\* in seconds
MaxDurationEvents == 2
MaxDuration == 130
\* transactions of the escrow specification, and the tokens every account
\* holds at the start
MaxEscrowCalls == 5
MaxAmount == 2
\* inbound events of the status specification
MaxStatusEvents == 4
\* inbound events of the view specification
MaxViewEvents == 3
\* inbound events of the conversations specification
MaxConversationEvents == 2
\* inbound events of the history specification
MaxHistoryEvents == 4
\* number of characters of an identifier given to createRoomId
MaxIdLen == 2

\* ------------------------------------------------------------ identifiers
Sockets == {"s1", "s2"}
SockOrder == <<"s1", "s2">>

\* "" stands for a missing / empty (falsy) field of a payload
None == ""
\* a truthy payload field that is not a string (e.g. the number 42)
NotAString == "<42>"

\* identifiers as clients may send them; "A" is "a" in another letter case
RawUsers == {"a", "A", "b", "c"}

\* String.prototype.toLowerCase on the identifiers of the model
toLowerCase(u) == IF u = "A" THEN "a" ELSE u

Rooms == {"a_b", "a_c"}

\* the places of the string r that hold the character c
Places(r, c) == {i \in 1..Len(r) : SubSeq(r, i, i) = c}

\* roomId.split("_")
RECURSIVE split(_)
split(r) ==
  IF Places(r, "_") = {} THEN <<r>>
  ELSE LET i == CHOOSE k \in Places(r, "_") :
                  \A l \in Places(r, "_") : k <= l
       IN <<SubSeq(r, 1, i - 1)>> \o split(SubSeq(r, i + 1, Len(r)))

\* a regular expression without special characters found in the string r
RegexMatch(r, pattern) ==
  \E i \in 1..(Len(r) - Len(pattern) + 1) :
     SubSeq(r, i, i + Len(pattern) - 1) = pattern

\* ------------------------------------------------------------------ state
VARIABLES
  sock,            \* socket id -> "fresh" | "open" | "closed"
  socketRooms,     \* socket.rooms without the socket's own room, in join order
  dataUser,        \* socket.data.userAddress (None = undefined)
  dataRoom,        \* socket.data.roomId      (None = undefined)
  onlineUsers,     \* Map userAddress -> socketIds
  typingUsers,     \* Map roomId -> Set<userAddress>
  chatRoomsCache,  \* Map roomId -> messages[]
  dbUp,            \* chatMessagesCollection is not null
  dbMessages,      \* documents of the chatMessages collection, by insertion
  pendingSaves,    \* saveChatMessageToDB calls awaiting insertOne
  pendingJoins,    \* join-room handlers awaiting loadChatFromDB
  timers,          \* setTimeout callbacks of join-room not yet run
  wire,            \* every emit of the relay, in order, with its recipients
  log,             \* console.warn / console.error lines about persistence
  clock,           \* Date.now()
  inbound,         \* the inbound events handled so far, in order
  crashed,         \* an exception escaped a handler: the process is gone
  budget,          \* number of inbound events the clients send in this run
  \* the VideoCall component of each of the two parties of a room
  mounted,         \* the component is on screen
  callStatus,      \* useState<CallStatus>
  isInitiator,     \* useState(false)
  callStartTime,   \* callStartTimeRef.current is set (the call timer runs)
  peerConnection,  \* peerConnectionRef.current is set
  media,           \* startCall / handleReceivedOffer awaiting the media
  closeTimers,     \* setTimeout(onClose, 500) not yet run
  net,             \* events the relay has sent to the party, in order
  sent,            \* every event the parties emitted, in order
  \* the Chat component of one user
  messages,        \* useState<ChatMessage[]>([])
  lastReceived,    \* the event the component handled last
  timesReceived,   \* message id -> chat-message events received with it
  seen,            \* emits of the relay the Chat component has been through
  outbox,          \* chat-message events the Chat component emitted, in order
  chatAddress,     \* useAccount().address of the Chat component, as code units
  chatOtherUser,   \* the otherUser prop of the Chat component, as code units
  chatRoomId,      \* createRoomId(address, otherUser), as code units
  conversations,   \* the last answer of GET /api/chat/conversations/:user
  escrows,         \* TimeEscrow.escrows: escrowId -> Escrow
  nextEscrowId,    \* TimeEscrow.nextEscrowId
  balanceOf,       \* timeToken balances, the escrow contract's included
  allowance,       \* timeToken allowance of owner -> the escrow contract
  events,          \* events emitted by TimeEscrow, oldest first
  lastTx           \* the last transaction sent and its outcome

vars == <<sock, socketRooms, dataUser, dataRoom, onlineUsers, typingUsers,
          chatRoomsCache, dbUp, dbMessages, pendingSaves, pendingJoins,
          timers, wire, log, clock, inbound, crashed, budget, mounted,
          callStatus, isInitiator, callStartTime, peerConnection, media,
          closeTimers, net, sent, messages, lastReceived, timesReceived,
          seen, outbox,
          chatAddress, chatOtherUser, chatRoomId, conversations,
          escrows, nextEscrowId, balanceOf, allowance, events, lastTx>>

\* the state of the relay process
serverVars == <<sock, socketRooms, dataUser, dataRoom, onlineUsers,
                typingUsers, chatRoomsCache, dbUp, dbMessages, pendingSaves,
                pendingJoins, timers, wire, log, clock, inbound, crashed>>

\* the state of the VideoCall components and of the events between them
callVars == <<mounted, callStatus, isInitiator, callStartTime,
              peerConnection, media, closeTimers, net, sent>>

\* the state of the Chat component
chatVars == <<messages, lastReceived, timesReceived, seen>>

\* what the Chat component has emitted to the relay
emitVars == <<outbox>>

\* the conversation the Chat component is open on
propsVars == <<chatAddress, chatOtherUser, chatRoomId>>

\* what the HTTP interface has answered
httpVars == <<conversations>>

\* the chain: TimeEscrow, its token and the transactions
escrowVars == <<escrows, nextEscrowId, balanceOf, allowance, events, lastTx>>

\* number of inbound events handled so far
steps == Len(inbound)

\* one inbound event: the socket, the event name and its payload fields
\* (present = FALSE: the event came without a payload)
In(s, ev, present, roomId, user, val, num) ==
  [s |-> s, ev |-> ev, present |-> present, roomId |-> roomId, user |-> user,
   val |-> val, num |-> num]

\* ---------------------------------------------------------------- helpers
\* Map.has / Map.get / Map.set / Map.delete on a function with a finite domain
MapHas(m, k) == k \in DOMAIN m
MapSet(m, k, v) == [x \in (DOMAIN m) \cup {k} |-> IF x = k THEN v ELSE m[x]]
MapDelete(m, k) == [x \in (DOMAIN m) \ {k} |-> m[x]]
EmptyMap == [x \in {} |-> {}]

\* io.sockets.adapter.rooms.get(roomId): the connected sockets joined to it
Range(q) == {q[i] : i \in 1..Len(q)}
RoomOf(rooms, r) == {s \in Sockets : r \in Range(rooms[s])}

\* Set.add on a Set kept in insertion order
SetAdd(q, x) == IF x \in Range(q) THEN q ELSE Append(q, x)

NoMsg == [id |-> [t |-> 0, r |-> None], message |-> None, sender |-> None,
          timestamp |-> 0, type |-> None, duration |-> -1]

\* one emit: the event and the sockets it is written to.  src and n are
\* bookkeeping: the connection whose inbound event n caused the emit.
Emit(rcpt, room, ev, user, val, msg, hist, src, n) ==
  [rcpt |-> rcpt, room |-> room, ev |-> ev, user |-> user, val |-> val,
   msg |-> msg, hist |-> hist, src |-> src, n |-> n]

\* io.to(roomId).emit("user-status", {userAddress, status})
UserStatus(rcpt, room, user, status, src, n) ==
  Emit(rcpt, room, "user-status", user, status, NoMsg, <<>>, src, n)

\* emit("typing", {userAddress, typing})
Typing(rcpt, room, user, typing, src, n) ==
  Emit(rcpt, room, "typing", user, typing, NoMsg, <<>>, src, n)

\* onlineUsers.get(u).socketIds.add(socket.id), creating the entry if absent
MarkOnline(m, u, s) ==
  MapSet(m, u, (IF MapHas(m, u) THEN m[u] ELSE {}) \cup {s})

\* a step of the relay: the process runs; the step leaves the run's budget
\* and the VideoCall components alone
Alive ==
  /\ ~crashed
  /\ UNCHANGED <<budget, callVars, chatVars, emitVars, propsVars, httpVars,
                 escrowVars>>

\* the clients may still send an event
MaySend == steps < budget

\* ------------------------------------------------------------ the process
\* an exception thrown by a handler is caught nowhere: a synchronous handler
\* raises uncaughtException, an async one an unhandled rejection, and Node
\* (v18 or higher, SETUP.md) ends the process on either
Throw ==
  /\ crashed' = TRUE
  /\ UNCHANGED <<sock, socketRooms, dataUser, dataRoom, onlineUsers,
                 typingUsers, chatRoomsCache, dbUp, dbMessages, pendingSaves,
                 pendingJoins, timers, wire, log, clock>>

\* connectMongoDB() resolves: the collections are set
MongoConnect ==
  /\ Alive /\ ~dbUp
  /\ dbUp' = TRUE
  /\ UNCHANGED <<sock, socketRooms, dataUser, dataRoom, onlineUsers,
                 typingUsers, chatRoomsCache, dbMessages, pendingSaves,
                 pendingJoins, timers, wire, log, clock, inbound, crashed>>

\* ------------------------------------------------------------- connection
\* io.on("connection"): sockets connect in the order s1, s2; the callback
\* only registers the handlers below
Connect(s) ==
  /\ Alive
  /\ sock[s] = "fresh"
  /\ \A i \in 1..Len(SockOrder) :
        SockOrder[i] = s => \A j \in 1..(i-1) : sock[SockOrder[j]] # "fresh"
  /\ sock' = [sock EXCEPT ![s] = "open"]
  /\ UNCHANGED <<socketRooms, dataUser, dataRoom, onlineUsers, typingUsers,
                 chatRoomsCache, dbUp, dbMessages, pendingSaves, pendingJoins,
                 timers, wire, log, clock, inbound, crashed>>

\* ---------------------------------------------------------------- presence
\* socket.on("user-online")
UserOnline(s, userAddress) ==
  /\ Alive /\ MaySend
  /\ sock[s] = "open"
  /\ inbound' = Append(inbound,
                       In(s, "user-online", TRUE, None, userAddress, None, 0))
  /\ IF userAddress = None
     THEN UNCHANGED <<sock, socketRooms, dataUser, dataRoom, onlineUsers,
                      typingUsers, chatRoomsCache, dbUp, dbMessages,
                      pendingSaves, pendingJoins, timers, wire, log, clock,
                      crashed>>
     ELSE IF userAddress = NotAString
     THEN Throw
     ELSE LET normalizedAddress == toLowerCase(userAddress)
              rs == socketRooms[s]
          IN /\ onlineUsers' = MarkOnline(onlineUsers, normalizedAddress, s)
             /\ dataUser' = [dataUser EXCEPT ![s] = normalizedAddress]
             /\ wire' = wire \o
                  [i \in 1..Len(rs) |->
                     UserStatus(RoomOf(socketRooms, rs[i]), rs[i],
                                normalizedAddress, "online", s, steps + 1)]
             /\ UNCHANGED <<sock, socketRooms, dataRoom, typingUsers,
                            chatRoomsCache, dbUp, dbMessages, pendingSaves,
                            pendingJoins, timers, log, clock, crashed>>

\* a find that leaves the documents in insertion order
SortByTimestamp_asInserted(q) == q

\* .sort({ timestamp: 1 }): ascending, documents of equal timestamp stay in
\* insertion order
RECURSIVE SortByTimestamp(_)
SortByTimestamp(q) ==
  IF q = <<>> THEN <<>>
  ELSE LET least == CHOOSE i \in 1..Len(q) :
                      /\ \A j \in 1..Len(q) : q[i].timestamp <= q[j].timestamp
                      /\ \A j \in 1..(i-1) : q[j].timestamp # q[i].timestamp
       IN <<q[least]>> \o
          SortByTimestamp([k \in 1..(Len(q)-1) |->
                             IF k < least THEN q[k] ELSE q[k+1]])

\* chatMessagesCollection.find({ roomId }) mapped to clean message objects
FindRoom(docs, roomId) ==
  LET hit(d) == d.roomId = roomId
      sel == SelectSeq(docs, hit)
  IN [i \in 1..Len(sel) |-> sel[i].msg]

\* a load that falls back on the in-memory cache when the store gives nothing
loadChatFromDB_cached(roomId, failed) ==
  IF ~dbUp \/ failed
  THEN (IF MapHas(chatRoomsCache, roomId) THEN chatRoomsCache[roomId]
        ELSE <<>>)
  ELSE SortByTimestamp(FindRoom(dbMessages, roomId))

\* loadChatFromDB(roomId); failed tells whether the query throws
loadChatFromDB(roomId, failed) ==
  IF ~dbUp \/ failed THEN <<>>
  ELSE SortByTimestamp(FindRoom(dbMessages, roomId))

\* the room scan of join-room: some socket of the room carries otherUser
ScanRoom(rooms, data, roomId, otherUser) ==
  \E x \in RoomOf(rooms, roomId) : data[x] = otherUser

\* the joining user taken for the other participant
OtherUser_self(roomId, normalizedAddress) == normalizedAddress

\* the other participant named by the room identifier
OtherUser(roomId, normalizedAddress) ==
  LET p == split(roomId)
  IN IF toLowerCase(p[1]) = normalizedAddress
     THEN toLowerCase(p[2]) ELSE toLowerCase(p[1])

\* socket.emit from the server: nothing is written to a closed socket
Self(s) == IF sock[s] = "open" THEN {s} ELSE {}

\* socket.on("join-room") from the result of loadChatFromDB to its end, for
\* the join j, run on the registry (rooms, data, online) and after the emits
\* of wireNow
JoinRest(j, rooms, data, online, wireNow, failed) ==
  LET dbMsgs == loadChatFromDB(j.roomId, failed)
      history == Emit(Self(j.s), None, "chat-history", None, None, NoMsg,
                      dbMsgs, j.s, j.n)
      p == split(j.roomId)
      hasBoth == Len(p) >= 2 /\ p[1] # None /\ p[2] # None
      otherUser == OtherUser(j.roomId, j.normalizedAddress)
      otherUserOnline ==
        \/ ScanRoom(rooms, data, j.roomId, otherUser)
        \/ (MapHas(online, otherUser) /\ online[otherUser] # {})
  IN /\ chatRoomsCache' = MapSet(chatRoomsCache, j.roomId, dbMsgs)
     /\ log' = IF failed THEN log \cup {[kind |-> "load-failed", n |-> j.n]}
               ELSE log
     /\ IF hasBoth
        THEN /\ wire' = wireNow \o
                  <<history,
                    UserStatus(Self(j.s), None, otherUser,
                               IF otherUserOnline THEN "online"
                               ELSE "offline", j.s, j.n)>>
             /\ timers' = timers \cup
                  {[roomId |-> j.roomId, otherUser |-> otherUser,
                    s |-> j.s, n |-> j.n]}
        ELSE /\ wire' = Append(wireNow, history)
             /\ UNCHANGED timers

\* socket.on("join-room").  Without a store connection loadChatFromDB
\* returns at once and the handler resumes before any other event is
\* dispatched; with one, the handler is suspended until the query returns.
JoinRoom(s, roomId, userAddress) ==
  /\ Alive /\ MaySend
  /\ sock[s] = "open"
  /\ inbound' = Append(inbound,
                       In(s, "join-room", TRUE, roomId, userAddress, None, 0))
  /\ IF roomId = None \/ userAddress = None
     THEN UNCHANGED <<sock, socketRooms, dataUser, dataRoom, onlineUsers,
                      typingUsers, chatRoomsCache, dbUp, dbMessages,
                      pendingSaves, pendingJoins, timers, wire, log, clock,
                      crashed>>
     ELSE IF userAddress = NotAString
     THEN Throw
     ELSE LET normalizedAddress == toLowerCase(userAddress)
              rooms1 == [socketRooms EXCEPT ![s] = SetAdd(@, roomId)]
              data1 == [dataUser EXCEPT ![s] = normalizedAddress]
              online1 == MarkOnline(onlineUsers, normalizedAddress, s)
              wire1 == Append(wire,
                   UserStatus(RoomOf(rooms1, roomId), roomId,
                              normalizedAddress, "online", s, steps + 1))
              j == [s |-> s, roomId |-> roomId,
                    normalizedAddress |-> normalizedAddress, n |-> steps + 1]
          IN /\ socketRooms' = rooms1
             /\ dataRoom' = [dataRoom EXCEPT ![s] = roomId]
             /\ dataUser' = data1
             /\ onlineUsers' = online1
             /\ IF dbUp
                THEN /\ wire' = wire1
                     /\ pendingJoins' = pendingJoins \cup {j}
                     /\ UNCHANGED <<chatRoomsCache, timers, log>>
                ELSE /\ JoinRest(j, rooms1, data1, online1, wire1, FALSE)
                     /\ UNCHANGED pendingJoins
             /\ UNCHANGED <<sock, typingUsers, dbUp, dbMessages, pendingSaves,
                            clock, crashed>>

\* socket.on("join-room") resumed when the store query returns
JoinHistory(j, failed) ==
  /\ Alive
  /\ j \in pendingJoins
  /\ JoinRest(j, socketRooms, dataUser, onlineUsers, wire, failed)
  /\ pendingJoins' = pendingJoins \ {j}
  /\ UNCHANGED <<sock, socketRooms, dataUser, dataRoom, onlineUsers,
                 typingUsers, dbUp, dbMessages, pendingSaves, clock, inbound,
                 crashed>>

\* the setTimeout callback of join-room (500 ms later)
Recheck(t) ==
  /\ Alive
  /\ t \in timers
  /\ timers' = timers \ {t}
  /\ wire' = IF ScanRoom(socketRooms, dataUser, t.roomId, t.otherUser)
             THEN Append(wire, UserStatus(RoomOf(socketRooms, t.roomId),
                                          t.roomId, t.otherUser, "online",
                                          t.s, t.n))
             ELSE wire
  /\ UNCHANGED <<sock, socketRooms, dataUser, dataRoom, onlineUsers,
                 typingUsers, chatRoomsCache, dbUp, dbMessages, pendingSaves,
                 pendingJoins, log, clock, inbound, crashed>>

\* socket.rooms as the "disconnect" handler sees it: socket.io has already
\* removed the socket from all its rooms when it fires "disconnect"
RoomsAtDisconnect(s) == <<>>

\* a test that takes every closing connection for the user's last one
NoMoreSockets_always(socketIds) == TRUE

\* onlineUsers.get(userAddress).socketIds.size === 0
NoMoreSockets(socketIds) == socketIds = {}

\* socket.on("disconnect")
Disconnect(s) ==
  /\ Alive /\ MaySend
  /\ sock[s] = "open"
  /\ inbound' = Append(inbound, In(s, "disconnect", FALSE, None, None, None, 0))
  /\ LET userAddress == dataUser[s]
         roomId == dataRoom[s]
         rooms1 == [socketRooms EXCEPT ![s] = <<>>]
         known == userAddress # None /\ MapHas(onlineUsers, userAddress)
         ids1 == IF known THEN onlineUsers[userAddress] \ {s} ELSE {}
         rs == RoomsAtDisconnect(s)
         offline ==
           IF known /\ NoMoreSockets(ids1)
           THEN (IF roomId # None
                 THEN <<UserStatus(RoomOf(rooms1, roomId), roomId,
                                   userAddress, "offline", s, steps + 1)>>
                 ELSE <<>>)
                \o [i \in 1..Len(rs) |->
                      UserStatus(RoomOf(rooms1, rs[i]), rs[i], userAddress,
                                 "offline", s, steps + 1)]
           ELSE <<>>
         untype == roomId # None /\ MapHas(typingUsers, roomId)
                   /\ userAddress # None
     IN /\ sock' = [sock EXCEPT ![s] = "closed"]
        /\ socketRooms' = rooms1
        /\ onlineUsers' = IF known THEN MapSet(onlineUsers, userAddress, ids1)
                          ELSE onlineUsers
        /\ typingUsers' = IF untype
                          THEN MapSet(typingUsers, roomId,
                                      typingUsers[roomId] \ {userAddress})
                          ELSE typingUsers
        /\ wire' = wire \o offline \o
                   (IF untype
                    THEN <<Typing(RoomOf(rooms1, roomId), roomId, userAddress,
                                  "false", s, steps + 1)>>
                    ELSE <<>>)
  /\ UNCHANGED <<dataUser, dataRoom, chatRoomsCache, dbUp, dbMessages,
                 pendingSaves, pendingJoins, timers, log, clock, crashed>>

\* ------------------------------------------------------------------ typing
\* an emit that goes back to the sender only
Others_self(rooms, roomId, s) == {s}

\* socket.to(roomId): the sockets of the room except the sender's
Others(rooms, roomId, s) == RoomOf(rooms, roomId) \ {s}

\* socket.on("typing-start")
TypingStart(s, present, roomId, userAddress) ==
  /\ Alive /\ MaySend
  /\ sock[s] = "open"
  /\ inbound' = Append(inbound, In(s, "typing-start", present, roomId,
                                   userAddress, None, 0))
  /\ IF ~present
     THEN Throw
     ELSE /\ typingUsers' =
               MapSet(typingUsers, roomId,
                      (IF MapHas(typingUsers, roomId) THEN typingUsers[roomId]
                       ELSE {}) \cup {userAddress})
          /\ wire' = Append(wire, Typing(Others(socketRooms, roomId, s),
                                         roomId, userAddress, "true", s,
                                         steps + 1))
          /\ UNCHANGED <<sock, socketRooms, dataUser, dataRoom, onlineUsers,
                         chatRoomsCache, dbUp, dbMessages, pendingSaves,
                         pendingJoins, timers, log, clock, crashed>>

\* socket.on("typing-stop")
TypingStop(s, present, roomId, userAddress) ==
  /\ Alive /\ MaySend
  /\ sock[s] = "open"
  /\ inbound' = Append(inbound, In(s, "typing-stop", present, roomId,
                                   userAddress, None, 0))
  /\ IF ~present
     THEN Throw
     ELSE /\ typingUsers' =
               IF MapHas(typingUsers, roomId)
               THEN IF typingUsers[roomId] \ {userAddress} = {}
                    THEN MapDelete(typingUsers, roomId)
                    ELSE MapSet(typingUsers, roomId,
                                typingUsers[roomId] \ {userAddress})
               ELSE typingUsers
          /\ wire' = Append(wire, Typing(Others(socketRooms, roomId, s),
                                         roomId, userAddress, "false", s,
                                         steps + 1))
          /\ UNCHANGED <<sock, socketRooms, dataUser, dataRoom, onlineUsers,
                         chatRoomsCache, dbUp, dbMessages, pendingSaves,
                         pendingJoins, timers, log, clock, crashed>>

\* ----------------------------------------------------------- chat messages
\* a validation that forgets the body
InvalidMessage_noBody(roomId, sender, message) ==
  roomId = None \/ sender = None

\* the validation of chat-message: !roomId || !sender || !message
InvalidMessage(roomId, sender, message) ==
  roomId = None \/ sender = None \/ message = None

\* the "Stop typing indicator" block of chat-message: the typing map after it
StopTypingMap(roomId, normalizedSender) ==
  IF MapHas(typingUsers, roomId)
  THEN MapSet(typingUsers, roomId, typingUsers[roomId] \ {normalizedSender})
  ELSE typingUsers

\* ... and what it emits: io.to(roomId).emit("typing", {.., typing: false})
StopTypingEmit(roomId, normalizedSender, s, n) ==
  IF MapHas(typingUsers, roomId)
  THEN <<Typing(RoomOf(socketRooms, roomId), roomId, normalizedSender,
                "false", s, n)>>
  ELSE <<>>

\* chatRoomsCache after messages.push(messageObj)
CachePush(roomId, messageObj) ==
  MapSet(chatRoomsCache, roomId,
         Append(IF MapHas(chatRoomsCache, roomId) THEN chatRoomsCache[roomId]
                ELSE <<>>, messageObj))

\* a fan-out to every open connection, whatever room it is in
FanOut_toAll(roomId, messageObj, s, n) ==
  <<Emit({x \in Sockets : sock[x] = "open"}, roomId, "chat-message",
         messageObj.sender, None, messageObj, <<>>, s, n)>>

\* a fan-out that is made only when the store can take the message
FanOut_ifStored(roomId, messageObj, s, n) ==
  IF dbUp
  THEN <<Emit(RoomOf(socketRooms, roomId), roomId, "chat-message",
              messageObj.sender, None, messageObj, <<>>, s, n)>>
  ELSE <<>>

\* io.to(roomId).emit("chat-message", messageObj)
FanOut(roomId, messageObj, s, n) ==
  <<Emit(RoomOf(socketRooms, roomId), roomId, "chat-message",
         messageObj.sender, None, messageObj, <<>>, s, n)>>

\* a handler that does not call saveChatMessageToDB
SaveStart_skipped(roomId, messageObj, n) ==
  UNCHANGED <<log, pendingSaves>>

\* saveChatMessageToDB up to its await: without a collection it warns and
\* returns false, otherwise insertOne is under way
SaveStart(roomId, messageObj, n) ==
  IF ~dbUp
  THEN /\ log' = log \cup {[kind |-> "not-connected", n |-> n]}
       /\ UNCHANGED pendingSaves
  ELSE /\ pendingSaves' = pendingSaves \cup
            {[roomId |-> roomId, msg |-> messageObj, n |-> n]}
       /\ UNCHANGED log

\* socket.on("chat-message"); tick: the milliseconds since the clock was
\* last read, rnd: the suffix drawn by Math.random()
ChatMessage(s, present, roomId, message, sender, timestamp, type, tick, rnd) ==
  /\ Alive /\ MaySend
  /\ sock[s] = "open"
  /\ inbound' = Append(inbound, In(s, "chat-message", present, roomId, sender,
                                   message, timestamp))
  /\ IF ~present
     THEN Throw
     ELSE IF InvalidMessage(roomId, sender, message)
     THEN UNCHANGED <<sock, socketRooms, dataUser, dataRoom, onlineUsers,
                      typingUsers, chatRoomsCache, dbUp, dbMessages,
                      pendingSaves, pendingJoins, timers, wire, log, clock,
                      crashed>>
     ELSE IF sender = NotAString \/ message = NotAString
     THEN Throw
     ELSE LET normalizedSender == toLowerCase(sender)
              now == clock + tick
              messageObj ==
                [id |-> [t |-> now, r |-> rnd], message |-> message,
                 sender |-> normalizedSender,
                 timestamp |-> IF timestamp # 0 THEN timestamp ELSE now,
                 type |-> IF type = None THEN "text" ELSE type,
                 duration |-> -1]
          IN /\ typingUsers' = StopTypingMap(roomId, normalizedSender)
             /\ chatRoomsCache' = CachePush(roomId, messageObj)
             /\ wire' = wire
                  \o StopTypingEmit(roomId, normalizedSender, s, steps + 1)
                  \o FanOut(roomId, messageObj, s, steps + 1)
             /\ SaveStart(roomId, messageObj, steps + 1)
             /\ clock' = now
             /\ UNCHANGED <<sock, socketRooms, dataUser, dataRoom,
                            onlineUsers, dbUp, dbMessages, pendingJoins,
                            timers, crashed>>

\* saveChatMessageToDB resumed: insertOne has stored the document (ok) or
\* has thrown
SaveDone(p, ok) ==
  /\ Alive
  /\ p \in pendingSaves
  /\ pendingSaves' = pendingSaves \ {p}
  /\ IF ok
     THEN /\ dbMessages' = Append(dbMessages,
                                  [roomId |-> p.roomId, msg |-> p.msg])
          /\ UNCHANGED log
     ELSE /\ log' = log \cup {[kind |-> "save-failed", n |-> p.n]}
          /\ UNCHANGED dbMessages
  /\ UNCHANGED <<sock, socketRooms, dataUser, dataRoom, onlineUsers,
                 typingUsers, chatRoomsCache, dbUp, pendingJoins, timers,
                 wire, clock, inbound, crashed>>

\* ---------------------------------------------------------- conversations
\* distinct("roomId", { $or: [{ sender }, { roomId: { $regex } }] })
DistinctRooms(lower) ==
  {dbMessages[i].roomId : i \in
     {k \in 1..Len(dbMessages) :
        \/ dbMessages[k].msg.sender = lower
        \/ RegexMatch(dbMessages[k].roomId, lower)}}

\* the orders in which distinct may list the rooms
Orderings(S) == {q \in [1..Cardinality(S) -> S] : Range(q) = S}

\* conversations.sort(...): latest lastUpdated first, entries of equal
\* lastUpdated stay in their order
RECURSIVE SortByLastUpdated(_)
SortByLastUpdated(q) ==
  IF q = <<>> THEN <<>>
  ELSE LET first == CHOOSE i \in 1..Len(q) :
                      /\ \A j \in 1..Len(q) : q[i].lastUpdated >= q[j].lastUpdated
                      /\ \A j \in 1..(i-1) : q[j].lastUpdated # q[i].lastUpdated
       IN <<q[first]>> \o
          SortByLastUpdated([k \in 1..(Len(q)-1) |->
                               IF k < first THEN q[k] ELSE q[k+1]])

\* the body of the loop over the rooms in getUserConversationsFromDB: the
\* entry pushed for roomId, if any
ConversationOf(roomId, lower) ==
  LET p == split(roomId)
      found == SortByTimestamp(FindRoom(dbMessages, roomId))
  IN IF Len(p) < 2 \/ p[1] = None \/ p[2] = None \/ found = <<>>
     THEN <<>>
     ELSE <<[roomId |-> roomId,
             otherUser |-> IF toLowerCase(p[1]) = lower THEN p[2] ELSE p[1],
             lastMessage |-> found[Len(found)],
             lastUpdated |-> found[Len(found)].timestamp,
             messageCount |-> Len(found)]>>

\* getUserConversationsFromDB(userAddress), distinct listing the rooms in
\* the order rooms
RECURSIVE ConversationsOf(_, _)
ConversationsOf(rooms, lower) ==
  IF rooms = <<>> THEN <<>>
  ELSE ConversationOf(Head(rooms), lower)
       \o ConversationsOf(Tail(rooms), lower)

getUserConversationsFromDB(userAddress, rooms) ==
  SortByLastUpdated(ConversationsOf(rooms, toLowerCase(userAddress)))

\* app.get("/api/chat/conversations/:userAddress"); failed tells whether a
\* store query throws
GetConversations(userAddress, failed) ==
  /\ ~crashed
  /\ IF ~dbUp
     THEN /\ conversations' = [userAddress |-> userAddress,
                               conversations |-> <<>>]
          /\ UNCHANGED log
     ELSE IF failed
     THEN /\ conversations' = [userAddress |-> userAddress,
                               conversations |-> <<>>]
          /\ log' = log \cup {[kind |-> "conversations-failed", n |-> steps]}
     ELSE /\ \E rooms \in Orderings(DistinctRooms(toLowerCase(userAddress))) :
               conversations' =
                 [userAddress |-> userAddress,
                  conversations |->
                    getUserConversationsFromDB(userAddress, rooms)]
          /\ UNCHANGED log
  /\ UNCHANGED <<sock, socketRooms, dataUser, dataRoom, onlineUsers,
                 typingUsers, chatRoomsCache, dbUp, dbMessages, pendingSaves,
                 pendingJoins, timers, wire, clock, inbound, crashed, budget,
                 callVars, chatVars, emitVars, propsVars, escrowVars>>

\* ------------------------------------------------------------ call signaling
\* a duration text that never counts minutes
DurationText_secondsOnly(duration) == ToString(duration) \o "s"

\* the duration text of video-call-ended
DurationText(duration) ==
  LET minutes == duration \div 60
      seconds == duration % 60
  IN IF minutes > 0
     THEN ToString(minutes) \o "m " \o ToString(seconds) \o "s"
     ELSE ToString(seconds) \o "s"

\* socket.on("video-call-ended")
VideoCallEnded(s, present, roomId, duration, sender, tick) ==
  /\ Alive /\ MaySend
  /\ sock[s] = "open"
  /\ inbound' = Append(inbound, In(s, "video-call-ended", present, roomId,
                                   sender, None, duration))
  /\ IF ~present
     THEN Throw
     ELSE LET now == clock + tick
              messageObj ==
                [id |-> [t |-> now, r |-> None],
                 message |-> "Video call ended - Duration: "
                             \o DurationText(duration),
                 sender |-> "system", timestamp |-> now,
                 type |-> "video-call", duration |-> duration]
          IN /\ chatRoomsCache' = CachePush(roomId, messageObj)
             /\ wire' = wire \o FanOut(roomId, messageObj, s, steps + 1)
             /\ SaveStart(roomId, messageObj, steps + 1)
             /\ clock' = now
             /\ UNCHANGED <<sock, socketRooms, dataUser, dataRoom,
                            onlineUsers, typingUsers, dbUp, dbMessages,
                            pendingJoins, timers, crashed>>

\* a signaling handler that lower-cases the sender as chat-message does
Relay_normalizing(s, ev, present, roomId, payload, sender) ==
  /\ Alive /\ MaySend
  /\ sock[s] = "open"
  /\ inbound' = Append(inbound, In(s, ev, present, roomId, sender, payload, 0))
  /\ IF ~present
     THEN Throw
     ELSE /\ wire' = Append(wire, Emit(Others(socketRooms, roomId, s), roomId,
                                       ev, toLowerCase(sender), payload,
                                       NoMsg, <<>>, s, steps + 1))
          /\ UNCHANGED <<sock, socketRooms, dataUser, dataRoom, onlineUsers,
                         typingUsers, chatRoomsCache, dbUp, dbMessages,
                         pendingSaves, pendingJoins, timers, log, clock,
                         crashed>>

\* the body shared by the three signaling handlers:
\* socket.to(roomId).emit(ev, { payload, sender })
Relay(s, ev, present, roomId, payload, sender) ==
  /\ Alive /\ MaySend
  /\ sock[s] = "open"
  /\ inbound' = Append(inbound, In(s, ev, present, roomId, sender, payload, 0))
  /\ IF ~present
     THEN Throw
     ELSE /\ wire' = Append(wire, Emit(Others(socketRooms, roomId, s), roomId,
                                       ev, sender, payload, NoMsg, <<>>, s,
                                       steps + 1))
          /\ UNCHANGED <<sock, socketRooms, dataUser, dataRoom, onlineUsers,
                         typingUsers, chatRoomsCache, dbUp, dbMessages,
                         pendingSaves, pendingJoins, timers, log, clock,
                         crashed>>

\* socket.on("webrtc-offer")
WebrtcOffer(s, present, roomId, offer, sender) ==
  Relay(s, "webrtc-offer", present, roomId, offer, sender)

\* socket.on("webrtc-answer")
WebrtcAnswer(s, present, roomId, answer, sender) ==
  Relay(s, "webrtc-answer", present, roomId, answer, sender)

\* socket.on("webrtc-ice-candidate")
WebrtcIceCandidate(s, present, roomId, candidate, sender) ==
  Relay(s, "webrtc-ice-candidate", present, roomId, candidate, sender)

\* socket.on("video-call-status")
VideoCallStatus(s, present, roomId, status, sender) ==
  /\ Alive /\ MaySend
  /\ sock[s] = "open"
  /\ inbound' = Append(inbound, In(s, "video-call-status", present, roomId,
                                   sender, status, 0))
  /\ IF ~present
     THEN Throw
     ELSE IF roomId = None \/ status = None \/ sender = None
     THEN UNCHANGED <<sock, socketRooms, dataUser, dataRoom, onlineUsers,
                      typingUsers, chatRoomsCache, dbUp, dbMessages,
                      pendingSaves, pendingJoins, timers, wire, log, clock,
                      crashed>>
     ELSE IF sender = NotAString
     THEN Throw
     ELSE /\ wire' = Append(wire, Emit(RoomOf(socketRooms, roomId), roomId,
                                       "video-call-status",
                                       toLowerCase(sender), status, NoMsg,
                                       <<>>, s, steps + 1))
          /\ UNCHANGED <<sock, socketRooms, dataUser, dataRoom, onlineUsers,
                         typingUsers, chatRoomsCache, dbUp, dbMessages,
                         pendingSaves, pendingJoins, timers, log, clock,
                         crashed>>

\* ----------------------------------------------- the VideoCall component
\* the two parties of the room a_b, each with the VideoCall component open
Parties == {"a", "b"}
Peer(e) == IF e = "a" THEN "b" ELSE "a"

\* the relay's video-call-status handler: io.to(roomId), sender included
ToRoom(q, ev, val, sender) ==
  [x \in Parties |-> Append(q[x], [ev |-> ev, val |-> val, sender |-> sender])]

\* the relay's webrtc-* handlers: socket.to(roomId), sender excluded
ToOthers(q, e, ev, val, sender) ==
  [x \in Parties |->
     IF x = e THEN q[x]
     ELSE Append(q[x], [ev |-> ev, val |-> val, sender |-> sender])]

\* socket.emit(ev, {roomId, ..., sender}) as recorded in sent
Out(e, ev, val) == [from |-> e, ev |-> ev, val |-> val]

\* a step of a VideoCall component: the relay's own state is left alone
ClientStep ==
  UNCHANGED <<serverVars, budget, chatVars, emitVars, propsVars, httpVars,
              escrowVars>>

\* the run lets the component emit once more
MayEmit == Len(sent) < budget

\* startCallTimer
startCallTimer(e) == [callStartTime EXCEPT ![e] = TRUE]

\* startCall, from the click on "Start Call" to the await of the media
StartCall(e) ==
  /\ ClientStep
  /\ mounted[e] /\ callStatus[e] = "idle"
  /\ "startCall" \notin media[e]
  /\ media' = [media EXCEPT ![e] = @ \cup {"startCall"}]
  /\ UNCHANGED <<mounted, callStatus, isInitiator, callStartTime,
                 peerConnection, closeTimers, net, sent>>

\* startCall resumed: the media are there (ok) or were refused
StartCallDone(e, ok) ==
  /\ ClientStep
  /\ "startCall" \in media[e]
  /\ ok => MayEmit
  /\ media' = [media EXCEPT ![e] = @ \ {"startCall"}]
  /\ IF ok
     THEN /\ peerConnection' = [peerConnection EXCEPT ![e] = TRUE]
          /\ sent' = sent \o <<Out(e, "webrtc-offer", "offer"),
                               Out(e, "video-call-status", "calling")>>
          /\ net' = ToRoom(ToOthers(net, e, "webrtc-offer", "offer", e),
                           "video-call-status", "calling", e)
          /\ callStatus' = IF mounted[e]
                           THEN [callStatus EXCEPT ![e] = "calling"]
                           ELSE callStatus
          /\ isInitiator' = IF mounted[e]
                            THEN [isInitiator EXCEPT ![e] = TRUE]
                            ELSE isInitiator
     ELSE UNCHANGED <<peerConnection, sent, net, callStatus, isInitiator>>
  /\ UNCHANGED <<mounted, callStartTime, closeTimers>>

\* endCall; elapsed: the whole seconds since the call timer was started
endCall(e, elapsed, netNow, sentNow) ==
  LET finalDuration == IF callStartTime[e] THEN elapsed ELSE 0
      report == IF callStatus[e] = "answered" /\ finalDuration > 0
                THEN <<Out(e, "video-call-ended", ToString(finalDuration))>>
                ELSE <<>>
  IN /\ sent' = sentNow \o report
                \o <<Out(e, "video-call-status", "ended")>>
     /\ net' = ToRoom(netNow, "video-call-status", "ended", e)
     /\ peerConnection' = [peerConnection EXCEPT ![e] = FALSE]
     /\ callStartTime' = [callStartTime EXCEPT ![e] = FALSE]
     /\ callStatus' = [callStatus EXCEPT ![e] = "ended"]
     /\ closeTimers' = [closeTimers EXCEPT ![e] = @ + 1]

\* the click on "End Call" (shown when calling or answered) or on the
\* closing cross of the header (always shown)
EndCall(e, elapsed) ==
  /\ ClientStep /\ MayEmit
  /\ mounted[e]
  /\ endCall(e, elapsed, net, sent)
  /\ UNCHANGED <<mounted, isInitiator, media>>

\* answerCall: the click on "Answer", shown while ringing
AnswerCall(e) ==
  /\ ClientStep /\ MayEmit
  /\ mounted[e] /\ callStatus[e] = "ringing"
  /\ sent' = Append(sent, Out(e, "video-call-status", "answered"))
  /\ net' = ToRoom(net, "video-call-status", "answered", e)
  /\ UNCHANGED <<mounted, callStatus, isInitiator, callStartTime,
                 peerConnection, media, closeTimers>>

\* rejectCall: the click on "Reject", shown while ringing
RejectCall(e, elapsed) ==
  /\ ClientStep /\ MayEmit
  /\ mounted[e] /\ callStatus[e] = "ringing"
  /\ endCall(e, elapsed,
             ToRoom(net, "video-call-status", "ended", e),
             Append(sent, Out(e, "video-call-status", "ended")))
  /\ UNCHANGED <<mounted, isInitiator, media>>

\* the next event the relay delivers to party e
Incoming(e) == net[e][1]
Delivered(e, ev) ==
  /\ net[e] # <<>>
  /\ Incoming(e).ev = ev

\* handleCallStatus
HandleCallStatus(e, elapsed) ==
  /\ ClientStep
  /\ Delivered(e, "video-call-status")
  /\ IF ~mounted[e] \/ toLowerCase(Incoming(e).sender) = toLowerCase(e)
     THEN /\ net' = [net EXCEPT ![e] = Tail(@)]
          /\ UNCHANGED <<callStatus, isInitiator, callStartTime,
                         peerConnection, closeTimers, sent>>
     ELSE IF Incoming(e).val = "calling" /\ callStatus[e] = "idle"
     THEN /\ net' = [net EXCEPT ![e] = Tail(@)]
          /\ callStatus' = [callStatus EXCEPT ![e] = "ringing"]
          /\ isInitiator' = [isInitiator EXCEPT ![e] = FALSE]
          /\ UNCHANGED <<callStartTime, peerConnection, closeTimers, sent>>
     ELSE IF Incoming(e).val = "answered"
     THEN /\ net' = [net EXCEPT ![e] = Tail(@)]
          /\ callStatus' = [callStatus EXCEPT ![e] = "answered"]
          /\ callStartTime' = startCallTimer(e)
          /\ UNCHANGED <<isInitiator, peerConnection, closeTimers, sent>>
     ELSE IF Incoming(e).val = "ended"
     THEN /\ MayEmit
          /\ endCall(e, elapsed, [net EXCEPT ![e] = Tail(@)], sent)
          /\ UNCHANGED isInitiator
     ELSE /\ net' = [net EXCEPT ![e] = Tail(@)]
          /\ UNCHANGED <<callStatus, isInitiator, callStartTime,
                         peerConnection, closeTimers, sent>>
  /\ UNCHANGED <<mounted, media>>

\* handleOffer, and handleReceivedOffer up to the await of the media
HandleOffer(e) ==
  /\ ClientStep
  /\ Delivered(e, "webrtc-offer")
  /\ net' = [net EXCEPT ![e] = Tail(@)]
  /\ media' = IF mounted[e] /\ toLowerCase(Incoming(e).sender) # toLowerCase(e)
              THEN [media EXCEPT ![e] = @ \cup {"receivedOffer"}]
              ELSE media
  /\ UNCHANGED <<mounted, callStatus, isInitiator, callStartTime,
                 peerConnection, closeTimers, sent>>

\* handleReceivedOffer resumed: the media are there (ok) or were refused
HandleReceivedOffer(e, ok) ==
  /\ ClientStep
  /\ "receivedOffer" \in media[e]
  /\ ok => MayEmit
  /\ media' = [media EXCEPT ![e] = @ \ {"receivedOffer"}]
  /\ IF ok
     THEN /\ peerConnection' = [peerConnection EXCEPT ![e] = TRUE]
          /\ sent' = sent \o <<Out(e, "webrtc-answer", "answer"),
                               Out(e, "video-call-status", "answered")>>
          /\ net' = ToRoom(ToOthers(net, e, "webrtc-answer", "answer", e),
                           "video-call-status", "answered", e)
          /\ callStatus' = IF mounted[e]
                           THEN [callStatus EXCEPT ![e] = "answered"]
                           ELSE callStatus
          /\ callStartTime' = startCallTimer(e)
     ELSE UNCHANGED <<peerConnection, sent, net, callStatus, callStartTime>>
  /\ UNCHANGED <<mounted, isInitiator, closeTimers>>

\* handleAnswer
HandleAnswer(e) ==
  /\ ClientStep
  /\ Delivered(e, "webrtc-answer")
  /\ net' = [net EXCEPT ![e] = Tail(@)]
  /\ IF /\ mounted[e] /\ toLowerCase(Incoming(e).sender) # toLowerCase(e)
        /\ peerConnection[e]
        /\ callStatus[e] = "calling" /\ isInitiator[e]
     THEN /\ callStatus' = [callStatus EXCEPT ![e] = "answered"]
          /\ callStartTime' = startCallTimer(e)
     ELSE UNCHANGED <<callStatus, callStartTime>>
  /\ UNCHANGED <<mounted, isInitiator, peerConnection, media, closeTimers,
                 sent>>

\* the timer of endCall runs onClose: the parent takes the component off
\* the screen
OnClose(e) ==
  /\ ClientStep
  /\ closeTimers[e] > 0
  /\ closeTimers' = [closeTimers EXCEPT ![e] = @ - 1]
  /\ mounted' = [mounted EXCEPT ![e] = FALSE]
  /\ UNCHANGED <<callStatus, isInitiator, callStartTime, peerConnection,
                 media, net, sent>>

\* the parent opens the component again, for a subsequent call: a fresh
\* component with its initial state
Open(e) ==
  /\ ClientStep
  /\ ~mounted[e] /\ closeTimers[e] = 0 /\ media[e] = {}
  /\ mounted' = [mounted EXCEPT ![e] = TRUE]
  /\ callStatus' = [callStatus EXCEPT ![e] = "idle"]
  /\ isInitiator' = [isInitiator EXCEPT ![e] = FALSE]
  /\ callStartTime' = [callStartTime EXCEPT ![e] = FALSE]
  /\ peerConnection' = [peerConnection EXCEPT ![e] = FALSE]
  /\ UNCHANGED <<media, closeTimers, net, sent>>

\* ---------------------------------------------------- the Chat component
\* the messages the component may be sent: two ids, two timestamps
MessageIds == {"m1", "m2"}
MessageTimes == {1, 2}
Messages == [id : MessageIds, timestamp : MessageTimes]

\* the chat-history payloads: the documents of a room, each message once
Histories ==
  {h \in UNION {[1..n -> Messages] : n \in 0..MaxHistoryLen} :
     \A i \in 1..Len(h), j \in 1..Len(h) : h[i].id = h[j].id => i = j}

\* Array.prototype.sort by new Date(timestamp).getTime(): ascending, stable
RECURSIVE sortByTime(_)
sortByTime(q) ==
  IF q = <<>> THEN <<>>
  ELSE LET least == CHOOSE i \in 1..Len(q) :
                      /\ \A j \in 1..Len(q) : q[i].timestamp <= q[j].timestamp
                      /\ \A j \in 1..(i-1) : q[j].timestamp # q[i].timestamp
       IN <<q[least]>> \o
          sortByTime([k \in 1..(Len(q)-1) |->
                        IF k < least THEN q[k] ELSE q[k+1]])

\* the updater of handleMessage without the check for a known id
handleMessage_noDedup(prev, message) == sortByTime(Append(prev, message))

\* the updater handleMessage passes to setMessages
handleMessage(prev, message) ==
  IF \E i \in 1..Len(prev) : prev[i].id = message.id
  THEN prev
  ELSE sortByTime(Append(prev, message))

\* a step of the Chat component: the relay and the calls are left alone
ChatStep ==
  UNCHANGED <<serverVars, budget, callVars, emitVars, propsVars, httpVars,
              escrowVars>>

\* socket.on('chat-message', handleMessage)
HandleMessage(message) ==
  /\ ChatStep
  /\ messages' = handleMessage(messages, message)
  /\ lastReceived' = [ev |-> "chat-message", id |-> message.id]
  /\ timesReceived' = [timesReceived EXCEPT
                         ![message.id] = IF @ < 2 THEN @ + 1 ELSE @]
  /\ UNCHANGED seen

\* socket.on('chat-history', handleHistory): the list is replaced
HandleHistory(history) ==
  /\ ChatStep
  /\ messages' = sortByTime(history)
  /\ lastReceived' = [ev |-> "chat-history", id |-> None]
  /\ UNCHANGED <<timesReceived, seen>>

\* the connection the Chat component has opened with useSocket
ChatSocket == "s1"

\* the next emit of the relay that reaches ChatSocket, if any
NextEmit ==
  {k \in (seen + 1)..Len(wire) :
     /\ ChatSocket \in wire[k].rcpt
     /\ \A l \in (seen + 1)..(k - 1) : ChatSocket \notin wire[l].rcpt}

\* the Chat component's listeners run on the next event from the relay:
\* handleHistory, handleMessage, or a listener that leaves the list alone
Receive ==
  /\ ChatStep
  /\ \E k \in NextEmit :
       /\ seen' = k
       /\ messages' =
            IF wire[k].ev = "chat-history" THEN sortByTime(wire[k].hist)
            ELSE IF wire[k].ev = "chat-message"
            THEN handleMessage(messages, wire[k].msg)
            ELSE messages
  /\ UNCHANGED <<lastReceived, timesReceived>>

\* the first part of an id: the relay's ids begin with the digits of
\* Date.now(), the component's own with the text "temp", written as no time
TempMark == 0 - 1

\* `temp-${Date.now()}`
TempId(now) == [t |-> TempMark, r |-> ToString(now)]

\* the texts and the times of the component's clock at which a is seen to
\* send
SendTexts == {"hi", "yo"}
SendTimes == {1, 2}

\* sendMessage: the trimmed input is put into the list under a temporary
\* id and emitted as chat-message
SendMessage(inputMessage, now) ==
  /\ UNCHANGED <<serverVars, budget, callVars, propsVars, httpVars,
                 escrowVars>>
  /\ inputMessage # None
  /\ sock[ChatSocket] = "open"
  /\ Len(outbox) < budget
  /\ LET messageData == [roomId |-> "a_b", message |-> inputMessage,
                         sender |-> toLowerCase("a"), timestamp |-> now]
         tempMessage == [id |-> TempId(now), message |-> inputMessage,
                         sender |-> messageData.sender,
                         timestamp |-> messageData.timestamp,
                         type |-> "text", duration |-> -1]
     IN /\ messages' = sortByTime(Append(messages, tempMessage))
        /\ outbox' = Append(outbox, messageData)
  /\ UNCHANGED <<lastReceived, timesReceived, seen>>

\* the chat-message events of the component the relay has handled so far
Handled ==
  Cardinality({i \in 1..Len(inbound) :
                 inbound[i].s = ChatSocket /\ inbound[i].ev = "chat-message"})

\* the relay's chat-message handler runs on the next event the component
\* emitted
RelaySent(tick, rnd) ==
  /\ Handled < Len(outbox)
  /\ LET d == outbox[Handled + 1]
     IN ChatMessage(ChatSocket, TRUE, d.roomId, d.message, d.sender,
                    d.timestamp, None, tick, rnd)

\* ------------------------------------------------------------ createRoomId
\* strings as sequences of UTF-16 code units: "A", "B", "a", "b"; "_"
CodeUnits == {65, 66, 97, 98}
Underscore == 95
Identifiers == UNION {[1..n -> CodeUnits] : n \in 1..MaxIdLen}

\* String.prototype.toLowerCase
lowerUnit(c) == IF c >= 65 /\ c <= 90 THEN c + 32 ELSE c
lowerCase(x) == [i \in 1..Len(x) |-> lowerUnit(x[i])]

\* the default comparison of Array.prototype.sort: x sorts before y
Before(x, y) ==
  \/ \E i \in 1..Len(x) :
       /\ i <= Len(y) /\ x[i] < y[i]
       /\ \A j \in 1..(i - 1) : x[j] = y[j]
  \/ Len(x) < Len(y) /\ \A j \in 1..Len(x) : x[j] = y[j]

\* a room identifier made without sorting the two participants
createRoomId_unsorted(address1, address2) ==
  lowerCase(address1) \o <<Underscore>> \o lowerCase(address2)

\* createRoomId(address1, address2)
createRoomId(address1, address2) ==
  LET l1 == lowerCase(address1)
      l2 == lowerCase(address2)
      sorted == IF Before(l2, l1) THEN <<l2, l1>> ELSE <<l1, l2>>
  IN sorted[1] \o <<Underscore>> \o sorted[2]

\* the Chat component is mounted for a conversation of address with
\* otherUser
OpenChat(address, other) ==
  /\ chatRoomId = <<>>
  /\ chatAddress' = address
  /\ chatOtherUser' = other
  /\ chatRoomId' = createRoomId(address, other)
  /\ UNCHANGED <<serverVars, budget, callVars, chatVars, emitVars, httpVars,
                 escrowVars>>

\* -------------------------------------------------------------- TimeEscrow
ZeroAddress == "0x0"
\* address(this)
EscrowAddress == "escrow"
Accounts == {"r", "p", "x"}
EscrowIds == 1..(MaxEscrowCalls + 1)

\* escrows[escrowId] of an identifier never used
NoEscrow ==
  [requester |-> ZeroAddress, provider |-> ZeroAddress, amount |-> 0,
   requesterConfirmed |-> FALSE, providerConfirmed |-> FALSE, active |-> FALSE]

\* ERC-20 balances after amount has moved
Moved(bal, from, to, amount) ==
  LET taken == [bal EXCEPT ![from] = @ - amount]
  IN [taken EXCEPT ![to] = @ + amount]

Tx(fn, sender, escrowId, status) ==
  [n |-> lastTx.n + 1, fn |-> fn, sender |-> sender, escrowId |-> escrowId,
   status |-> status]

\* a wallet may send one more transaction
MayCall == lastTx.n < budget

ChainStep ==
  UNCHANGED <<serverVars, budget, callVars, chatVars, emitVars, propsVars,
              httpVars>>

\* the transaction reverts: nothing but its receipt remains
Revert(fn, sender, escrowId) ==
  /\ lastTx' = Tx(fn, sender, escrowId, "reverted")
  /\ UNCHANGED <<escrows, nextEscrowId, balanceOf, allowance, events>>

\* timeToken.approve(escrow, amount) sent by owner
Approve(owner, amount) ==
  /\ MayCall /\ ChainStep
  /\ allowance' = [allowance EXCEPT ![owner] = amount]
  /\ lastTx' = Tx("approve", owner, 0, "success")
  /\ UNCHANGED <<escrows, nextEscrowId, balanceOf, events>>

\* createEscrow(provider, amount) sent by sender
CreateEscrow(sender, provider, amount) ==
  /\ MayCall /\ ChainStep
  /\ IF provider = ZeroAddress \/ provider = sender
     THEN Revert("createEscrow", sender, 0)
     ELSE IF ~(amount > 0)
     THEN Revert("createEscrow", sender, 0)
     ELSE IF allowance[sender] < amount \/ balanceOf[sender] < amount
     THEN Revert("createEscrow", sender, 0)
     ELSE LET escrowId == nextEscrowId
          IN /\ balanceOf' = Moved(balanceOf, sender, EscrowAddress, amount)
             /\ allowance' = [allowance EXCEPT ![sender] = @ - amount]
             /\ nextEscrowId' = nextEscrowId + 1
             /\ escrows' = [escrows EXCEPT ![escrowId] =
                  [requester |-> sender, provider |-> provider,
                   amount |-> amount, requesterConfirmed |-> FALSE,
                   providerConfirmed |-> FALSE, active |-> TRUE]]
             /\ events' = Append(events,
                  [name |-> "EscrowCreated", escrowId |-> escrowId,
                   user |-> sender, amount |-> amount])
             /\ lastTx' = Tx("createEscrow", sender, escrowId, "success")

\* a contract that never looks at the active flag
Active_always(e) == TRUE

\* require(e.active, "Escrow inactive")
Active(e) == e.active

\* a confirm that pays the provider as soon as the provider has confirmed
BothConfirmed_providerOnly(e) == e.providerConfirmed

\* the condition of the release in confirm
BothConfirmed(e) == e.requesterConfirmed /\ e.providerConfirmed

\* a confirm open to every account
IsParty_anyone(sender, e) == TRUE

\* require(msg.sender == e.requester || msg.sender == e.provider)
IsParty(sender, e) == sender = e.requester \/ sender = e.provider

\* confirm(escrowId) sent by sender, _release included
Confirm(sender, escrowId) ==
  /\ MayCall /\ ChainStep
  /\ LET e == escrows[escrowId]
         e1 == IF sender = e.requester
               THEN [e EXCEPT !.requesterConfirmed = TRUE]
               ELSE [e EXCEPT !.providerConfirmed = TRUE]
         confirmed == [name |-> "Confirmed", escrowId |-> escrowId,
                       user |-> sender, amount |-> 0]
     IN IF ~Active(e)
        THEN Revert("confirm", sender, escrowId)
        ELSE IF ~IsParty(sender, e)
        THEN Revert("confirm", sender, escrowId)
        ELSE IF ~BothConfirmed(e1)
        THEN /\ escrows' = [escrows EXCEPT ![escrowId] = e1]
             /\ events' = Append(events, confirmed)
             /\ lastTx' = Tx("confirm", sender, escrowId, "success")
             /\ UNCHANGED <<nextEscrowId, balanceOf, allowance>>
        ELSE IF balanceOf[EscrowAddress] < e1.amount
        THEN Revert("confirm", sender, escrowId)
        ELSE /\ escrows' = [escrows EXCEPT ![escrowId] =
                              [e1 EXCEPT !.active = FALSE]]
             /\ balanceOf' = Moved(balanceOf, EscrowAddress, e1.provider,
                                   e1.amount)
             /\ events' = events \o
                  <<confirmed,
                    [name |-> "Released", escrowId |-> escrowId,
                     user |-> e1.provider, amount |-> e1.amount]>>
             /\ lastTx' = Tx("confirm", sender, escrowId, "success")
             /\ UNCHANGED <<nextEscrowId, allowance>>

\* a cancel that any party of the escrow may send
MayCancel_anyParty(sender, e) == sender = e.requester \/ sender = e.provider

\* require(msg.sender == e.requester, "Only requester")
MayCancel(sender, e) == sender = e.requester

\* cancel(escrowId) sent by sender
Cancel(sender, escrowId) ==
  /\ MayCall /\ ChainStep
  /\ LET e == escrows[escrowId]
     IN IF ~Active(e)
        THEN Revert("cancel", sender, escrowId)
        ELSE IF ~MayCancel(sender, e)
        THEN Revert("cancel", sender, escrowId)
        ELSE IF e.providerConfirmed
        THEN Revert("cancel", sender, escrowId)
        ELSE IF balanceOf[EscrowAddress] < e.amount
        THEN Revert("cancel", sender, escrowId)
        ELSE /\ escrows' = [escrows EXCEPT ![escrowId].active = FALSE]
             /\ balanceOf' = Moved(balanceOf, EscrowAddress, e.requester,
                                   e.amount)
             /\ events' = Append(events,
                  [name |-> "EscrowCancelled", escrowId |-> escrowId,
                   user |-> sender, amount |-> 0])
             /\ lastTx' = Tx("cancel", sender, escrowId, "success")
             /\ UNCHANGED <<nextEscrowId, allowance>>

\* onCancel of the escrow page for the wallet address: with the escrow read
\* from the chain (loaded) the page sends cancel only for the requester of
\* an active escrow the provider has not confirmed; without, it sends it
\* once the user has agreed to proceed
OnCancel(address, escrowId, loaded) ==
  /\ loaded
     => /\ address = escrows[escrowId].requester
        /\ ~escrows[escrowId].providerConfirmed
        /\ escrows[escrowId].active
  /\ Cancel(address, escrowId)

\* ------------------------------------------- the Chat component's idle timer
\* the typing-start events whose 3-second idle timer (typingTimeoutRef) is
\* still to fire: sent on a connection that is still open and not followed by
\* a typing-stop of that connection
Outstanding ==
  {i \in 1..Len(inbound) :
     /\ inbound[i].ev = "typing-start" /\ inbound[i].present
     /\ sock[inbound[i].s] = "open"
     /\ \A j \in (i + 1)..Len(inbound) :
          ~(inbound[j].s = inbound[i].s /\ inbound[j].ev = "typing-stop")}

\* handleTyping on a keystroke: typing-start is sent when the component is
\* not typing yet, and the idle timer is started
KeyStroke(s, roomId, userAddress) ==
  /\ \A i \in Outstanding : inbound[i].s # s
  /\ steps + 1 < budget
  /\ TypingStart(s, TRUE, roomId, userAddress)

\* the idle timer fires: typing-stop is sent if the socket is connected
IdleTimeout(i) ==
  /\ i \in Outstanding
  /\ TypingStop(inbound[i].s, TRUE, inbound[i].roomId, inbound[i].user)

\* ------------------------------------------------------------------- Init
\* the process after start-up: no connection, empty maps, no store yet
Init ==
  /\ sock = [s \in Sockets |-> "fresh"]
  /\ socketRooms = [s \in Sockets |-> <<>>]
  /\ dataUser = [s \in Sockets |-> None]
  /\ dataRoom = [s \in Sockets |-> None]
  /\ onlineUsers = EmptyMap
  /\ typingUsers = EmptyMap
  /\ chatRoomsCache = EmptyMap
  /\ dbUp = FALSE
  /\ dbMessages = <<>>
  /\ pendingSaves = {}
  /\ pendingJoins = {}
  /\ timers = {}
  /\ wire = <<>>
  /\ log = {}
  /\ clock = 1
  /\ inbound = <<>>
  /\ crashed = FALSE
  /\ mounted = [e \in Parties |-> TRUE]
  /\ callStatus = [e \in Parties |-> "idle"]
  /\ isInitiator = [e \in Parties |-> FALSE]
  /\ callStartTime = [e \in Parties |-> FALSE]
  /\ peerConnection = [e \in Parties |-> FALSE]
  /\ media = [e \in Parties |-> {}]
  /\ closeTimers = [e \in Parties |-> 0]
  /\ net = [e \in Parties |-> <<>>]
  /\ sent = <<>>
  /\ messages = <<>>
  /\ lastReceived = [ev |-> None, id |-> None]
  /\ timesReceived = [i \in MessageIds |-> 0]
  /\ seen = 0
  /\ outbox = <<>>
  /\ chatAddress = <<>>
  /\ chatOtherUser = <<>>
  /\ chatRoomId = <<>>
  /\ conversations = [userAddress |-> None, conversations |-> <<>>]
  /\ escrows = [i \in EscrowIds |-> NoEscrow]
  /\ nextEscrowId = 1
  /\ balanceOf = [a \in Accounts \cup {EscrowAddress} |->
                    IF a = EscrowAddress THEN 0 ELSE MaxAmount]
  /\ allowance = [a \in Accounts |-> 0]
  /\ events = <<>>
  /\ lastTx = [n |-> 0, fn |-> None, sender |-> None, escrowId |-> 0,
               status |-> None]

\* ------------------------------------------------- presence specification
\* any sequence of user-online, join-room and disconnect events of two
\* connections, for the users a and b and the rooms a_b and a_c
PresenceUsers == {"a", "b"}

InitPresence == Init /\ budget = MaxPresenceEvents

NextPresence ==
  \/ \E s \in Sockets : Connect(s)
  \/ \E s \in Sockets, u \in PresenceUsers : UserOnline(s, u)
  \/ \E s \in Sockets, r \in Rooms, u \in PresenceUsers : JoinRoom(s, r, u)
  \/ \E s \in Sockets : Disconnect(s)
  \/ \E t \in timers : Recheck(t)

SpecPresence == InitPresence /\ [][NextPresence]_vars

\* ----------------------------------------------------- chat specification
\* user a on connection s1 (writing its identifier as "a" or "A") and user b
\* on connection s2 in the room a_b, with a store that may be absent, slow
\* or failing
ChatRoom == "a_b"
ChatUser(s) == IF s = "s1" THEN {"a", "A"} ELSE {"b"}
ChatJoinAs(s) == IF s = "s1" THEN "a" ELSE "b"

\* the payloads of chat-message that connection s sends: valid ones, ones
\* with a missing field, a body that is no string, and no payload at all
ChatPayloads(s) ==
  {[present |-> TRUE, roomId |-> ChatRoom, message |-> "hi", sender |-> u]
     : u \in ChatUser(s)}
  \cup (IF s = "s1"
        THEN {[present |-> TRUE, roomId |-> None, message |-> "hi",
               sender |-> "a"],
              [present |-> TRUE, roomId |-> ChatRoom, message |-> None,
               sender |-> "a"],
              [present |-> TRUE, roomId |-> ChatRoom, message |-> "hi",
               sender |-> None],
              [present |-> TRUE, roomId |-> ChatRoom, message |-> NotAString,
               sender |-> "a"],
              [present |-> FALSE, roomId |-> None, message |-> None,
               sender |-> None]}
        ELSE {})

InitChat == Init /\ budget = MaxChatEvents

NextChat ==
  \/ \E s \in Sockets : Connect(s)
  \/ MongoConnect
  \/ \E s \in Sockets : JoinRoom(s, ChatRoom, ChatJoinAs(s))
  \/ \E j \in pendingJoins, failed \in BOOLEAN : JoinHistory(j, failed)
  \/ \E t \in timers : Recheck(t)
  \/ \E u \in ChatUser("s1"), present \in BOOLEAN :
        TypingStart("s1", present, ChatRoom, u)
  \/ \E s \in Sockets : \E d \in ChatPayloads(s) :
        ChatMessage(s, d.present, d.roomId, d.message, d.sender, 0, None,
                    1, "x")
  \/ \E p \in pendingSaves, ok \in BOOLEAN : SaveDone(p, ok)

SpecChat == InitChat /\ [][NextChat]_vars

\* the same, with every insertOne under way settling in the end (the driver
\* resolves or rejects each call) as long as the process runs
SpecChatFair ==
  SpecChat /\ WF_vars(\E p \in pendingSaves, ok \in BOOLEAN : SaveDone(p, ok))

\* ---------------------------------------------------- relay specification
\* the room a_b with user a on connection s1 and user b on connection s2:
\* both join, chat and send call-status events, s1 also types, signals and
\* reports the end of a call, s2 may leave; the store may be absent, slow
\* or failing
RelayStatuses == {"calling", "ended"}
RelayDurations == {5, 125}

InitRelay == Init /\ budget = MaxRelayEvents

NextRelay ==
  \/ \E s \in Sockets : Connect(s)
  \/ MongoConnect
  \/ \E s \in Sockets : JoinRoom(s, ChatRoom, ChatJoinAs(s))
  \/ \E j \in pendingJoins : JoinHistory(j, FALSE)
  \/ \E t \in timers : Recheck(t)
  \/ TypingStart("s1", TRUE, ChatRoom, "a")
  \/ TypingStop("s1", TRUE, ChatRoom, "a")
  \/ \E s \in Sockets :
        ChatMessage(s, TRUE, ChatRoom, "hi", ChatJoinAs(s), 0, None, 1, "x")
  \/ \E u \in ChatUser("s1") :
       WebrtcOffer("s1", TRUE, ChatRoom, "sdp-offer", u)
  \/ WebrtcAnswer("s1", TRUE, ChatRoom, "sdp-answer", "a")
  \/ WebrtcIceCandidate("s1", TRUE, ChatRoom, "candidate", "a")
  \/ \E s \in Sockets, st \in RelayStatuses :
        VideoCallStatus(s, TRUE, ChatRoom, st, ChatJoinAs(s))
  \/ \E d \in RelayDurations : VideoCallEnded("s1", TRUE, ChatRoom, d, "a", 1)
  \/ \E p \in pendingSaves, ok \in BOOLEAN : SaveDone(p, ok)
  \/ Disconnect("s2")

SpecRelay == InitRelay /\ [][NextRelay]_vars

\* ------------------------------------------------ message-id specification
\* a and b in the room a_b send chat messages and report ends of calls; the
\* clock may or may not have advanced between two events; two draws of
\* Math.random() at one clock reading are taken to differ
Ticks == {0, 1}
RandomSuffixes == {"x", "y"}

\* the suffixes not yet drawn at the clock reading now
FreshSuffixes(now) ==
  {r \in RandomSuffixes :
     \A k \in 1..Len(wire) :
       wire[k].ev = "chat-message" => wire[k].msg.id # [t |-> now, r |-> r]}

InitIds == Init /\ budget = MaxIdEvents

NextIds ==
  \/ \E s \in Sockets : Connect(s)
  \/ MongoConnect
  \/ \E s \in Sockets : JoinRoom(s, ChatRoom, ChatJoinAs(s))
  \/ \E j \in pendingJoins : JoinHistory(j, FALSE)
  \/ \E t \in timers : Recheck(t)
  \/ \E s \in Sockets, tick \in Ticks :
       \E rnd \in FreshSuffixes(clock + tick) :
         ChatMessage(s, TRUE, ChatRoom, "hi", ChatJoinAs(s), 0, None, tick,
                     rnd)
  \/ \E s \in Sockets, tick \in Ticks :
       VideoCallEnded(s, TRUE, ChatRoom, 5, ChatJoinAs(s), tick)
  \/ \E p \in pendingSaves : SaveDone(p, TRUE)

SpecIds == InitIds /\ [][NextIds]_vars

\* ---------------------------------------------------- typing specification
\* user a on connection s1, writing its identifier as "a" (the Chat
\* component's typing events) or as "A" (the wallet's spelling, which the
\* component's cleanup sends), types, stops, submits and leaves; b listens
TypingSpellings == {"a", "A"}

InitTyping == Init /\ budget = MaxTypingEvents

NextTyping ==
  \/ \E s \in Sockets : Connect(s)
  \/ \E s \in Sockets : JoinRoom(s, ChatRoom, ChatJoinAs(s))
  \/ \E t \in timers : Recheck(t)
  \/ \E u \in TypingSpellings : UserOnline("s1", u)
  \/ \E u \in TypingSpellings : TypingStart("s1", TRUE, ChatRoom, u)
  \/ \E u \in TypingSpellings : TypingStop("s1", TRUE, ChatRoom, u)
  \/ \E u \in TypingSpellings :
       ChatMessage("s1", TRUE, ChatRoom, "hi", u, 0, None, 1, "x")
  \/ Disconnect("s1")

SpecTyping == InitTyping /\ [][NextTyping]_vars

\* ------------------------------------------------ idle-timer specification
\* user b listens in the room a_b on connection s2; user a, on connection
\* s1, joins rooms, types in a room it has joined and falls silent, and the
\* connection may close.
\* The idle timer of a typing component fires in the end.
InitIdle == Init /\ budget = MaxIdleEvents

NextIdle ==
  \/ \E s \in Sockets : Connect(s)
  \/ steps + Cardinality(Outstanding) < budget
     /\ JoinRoom("s2", ChatRoom, "b")
  \/ \E r \in Rooms :
       /\ steps + Cardinality(Outstanding) < budget
       /\ JoinRoom("s1", r, "a")
  \/ \E t \in timers : Recheck(t)
  \/ \E r \in Range(socketRooms["s1"]) : KeyStroke("s1", r, "a")
  \/ \E i \in 1..MaxIdleEvents : IdleTimeout(i)
  \/ Disconnect("s1")

SpecIdle ==
  /\ InitIdle /\ [][NextIdle]_vars
  /\ WF_vars(\E i \in 1..MaxIdleEvents : IdleTimeout(i))

\* ----------------------------------------------------- status specification
\* user b, on connection s2 only, announces itself and joins the room a_b or
\* its room with c; user a joins a_b on connection s1; b's connection may
\* close.  The delayed re-check of a join runs in the end.
StatusRooms == {"a_b", "b_c"}

InitStatus == Init /\ budget = MaxStatusEvents

NextStatus ==
  \/ \E s \in Sockets : Connect(s)
  \/ UserOnline("s2", "b")
  \/ \E r \in StatusRooms : JoinRoom("s2", r, "b")
  \/ JoinRoom("s1", ChatRoom, "a")
  \/ \E t \in timers : Recheck(t)
  \/ Disconnect("s2")

SpecStatus ==
  /\ InitStatus /\ [][NextStatus]_vars
  /\ WF_vars(\E t \in timers : Recheck(t))

\* ---------------------------------------------- call-duration specification
\* a and b in the room a_b; a reports the end of calls of any length up to
\* MaxDuration seconds
Durations == 0..MaxDuration

InitDuration == Init /\ budget = MaxDurationEvents

NextDuration ==
  \/ \E s \in Sockets : Connect(s)
  \/ \E s \in Sockets : JoinRoom(s, ChatRoom, ChatJoinAs(s))
  \/ \E t \in timers : Recheck(t)
  \/ \E d \in Durations : VideoCallEnded("s1", TRUE, ChatRoom, d, "a", 1)

SpecDuration == InitDuration /\ [][NextDuration]_vars

\* ------------------------------------------------------- view specification
\* user a's Chat component on connection s1 joins the rooms a_b and a_c, one
\* after the other or one of them again; user b on connection s2 joins a_b,
\* types and writes there; the store may be absent or slow; a's component
\* handles what the relay sends it
InitView == Init /\ budget = MaxViewEvents

NextView ==
  \/ \E s \in Sockets : Connect(s)
  \/ MongoConnect
  \/ \E r \in Rooms : JoinRoom(ChatSocket, r, "a")
  \/ JoinRoom("s2", ChatRoom, "b")
  \/ \E j \in pendingJoins : JoinHistory(j, FALSE)
  \/ \E t \in timers : Recheck(t)
  \/ TypingStart("s2", TRUE, ChatRoom, "b")
  \/ ChatMessage("s2", TRUE, ChatRoom, "hi", "b", 0, None, 1, "x")
  \/ \E p \in pendingSaves : SaveDone(p, TRUE)
  \/ Receive

SpecView == InitView /\ [][NextView]_vars

\* ----------------------------------------------------- escrow specification
\* the accounts r, p and x approve the escrow contract, create escrows for
\* one another, confirm and cancel, with any identifier and in any order
Amounts == 0..MaxAmount

InitEscrow == Init /\ budget = MaxEscrowCalls

NextEscrow ==
  \/ \E a \in Accounts, n \in Amounts : Approve(a, n)
  \/ \E a \in Accounts, p \in Accounts \cup {ZeroAddress}, n \in Amounts :
        CreateEscrow(a, p, n)
  \/ \E a \in Accounts, i \in EscrowIds : Confirm(a, i)
  \/ \E a \in Accounts, i \in EscrowIds : Cancel(a, i)
  \/ \E a \in Accounts, i \in EscrowIds, loaded \in BOOLEAN :
        OnCancel(a, i, loaded)

SpecEscrow == InitEscrow /\ [][NextEscrow]_vars

\* ---------------------------------------------- conversations specification
\* the users a, b, c and ab each write, from connection s1, to the rooms they
\* are a participant of; the inserts settle; the conversations of a user are
\* asked for over HTTP at any time
ConversationRooms == {"a_b", "a_c", "ab_c"}
ConversationUsers == {"a", "A", "b", "ab"}

InitConversations == Init /\ budget = MaxConversationEvents

NextConversations ==
  \/ Connect("s1")
  \/ MongoConnect
  \/ \E r \in ConversationRooms : \E u \in Range(split(r)) :
        ChatMessage("s1", TRUE, r, "hi", u, 0, None, 1, "x")
  \/ \E p \in pendingSaves : SaveDone(p, TRUE)
  \/ \E u \in ConversationUsers, failed \in BOOLEAN :
        GetConversations(u, failed)

SpecConversations == InitConversations /\ [][NextConversations]_vars

\* -------------------------------------------------- history specification
\* user a sends chat messages to the rooms a_b and a_c from connection s1,
\* with timestamps of its own choosing; a second connection of a joins the
\* room a_b; the inserts settle in any order and a query may fail
HistoryTimes == {1, 2}

InitHistory == Init /\ budget = MaxHistoryEvents

NextHistory ==
  \/ \E s \in Sockets : Connect(s)
  \/ MongoConnect
  \/ \E r \in Rooms, t \in HistoryTimes :
        ChatMessage("s1", TRUE, r, "hi", "a", t, None, 1, "x")
  \/ JoinRoom("s2", ChatRoom, "a")
  \/ \E j \in pendingJoins, failed \in BOOLEAN : JoinHistory(j, failed)
  \/ \E p \in pendingSaves : SaveDone(p, TRUE)

SpecHistory == InitHistory /\ [][NextHistory]_vars

\* -------------------------------------------------- room-id specification
\* the Chat component opened on any pair of identifiers
InitRoomId == Init /\ budget = 0

NextRoomId == \E x \in Identifiers, y \in Identifiers : OpenChat(x, y)

SpecRoomId == InitRoomId /\ [][NextRoomId]_vars

\* ----------------------------------------------------- call specification
\* the VideoCall components of a and b, open on the room a_b, with the
\* relay passing their events on; a call timer read at 0 or at 5 seconds
CallElapsed == {0, 5}

InitCall == Init /\ budget = MaxCallEmits

NextCall ==
  \/ \E e \in Parties : StartCall(e)
  \/ \E e \in Parties, ok \in BOOLEAN : StartCallDone(e, ok)
  \/ \E e \in Parties, d \in CallElapsed : EndCall(e, d)
  \/ \E e \in Parties : AnswerCall(e)
  \/ \E e \in Parties, d \in CallElapsed : RejectCall(e, d)
  \/ \E e \in Parties, d \in CallElapsed : HandleCallStatus(e, d)
  \/ \E e \in Parties : HandleOffer(e)
  \/ \E e \in Parties, ok \in BOOLEAN : HandleReceivedOffer(e, ok)
  \/ \E e \in Parties : HandleAnswer(e)
  \/ \E e \in Parties : OnClose(e)
  \/ \E e \in Parties : Open(e)

SpecCall == InitCall /\ [][NextCall]_vars

\* -------------------------------------------------- hang-up specification
\* one call from a to b on the room a_b, taken by b; a is the one party
\* who hangs up, b only hears of it; the call timer read at 0 or at 5 seconds
InitHangUp == Init /\ budget = MaxHangUpEmits

NextHangUp ==
  \/ StartCall("a")
  \/ StartCallDone("a", TRUE)
  \/ \E d \in CallElapsed : EndCall("a", d)
  \/ AnswerCall("b")
  \/ \E e \in Parties, d \in CallElapsed : HandleCallStatus(e, d)
  \/ HandleOffer("b")
  \/ HandleReceivedOffer("b", TRUE)
  \/ HandleAnswer("a")
  \/ \E e \in Parties : OnClose(e)

SpecHangUp == InitHangUp /\ [][NextHangUp]_vars

\* ----------------------------------------------------- send specification
\* user a's Chat component on connection s1 joins the room a_b, sends
\* messages and handles what the relay sends it; the relay runs without a
\* store, so that a join is answered from the cache at once
InitSend == Init /\ budget = MaxSendEvents

NextSend ==
  \/ Connect(ChatSocket)
  \/ JoinRoom(ChatSocket, "a_b", "a")
  \/ \E t \in timers : Recheck(t)
  \/ \E text \in SendTexts, now \in SendTimes : SendMessage(text, now)
  \/ RelaySent(1, "x")
  \/ Receive

SpecSend == InitSend /\ [][NextSend]_vars

\* ---------------------------------------------- marketplace specification
\* user b has the Marketplace page open and nothing else: the page's own
\* connection, which emits no join-room
MarketSocket == "s2"

\* user a's VideoCall component on connection s1 starts calls to b on the
\* room a_b and ends them; b's page may decline a call
InitMarket == Init /\ budget = MaxMarketEvents

NextMarket ==
  \/ \E s \in Sockets : Connect(s)
  \/ JoinRoom("s1", "a_b", "a")
  \/ UserOnline("s1", "a")
  \/ \E t \in timers : Recheck(t)
  \/ WebrtcOffer("s1", TRUE, "a_b", "sdp-offer", "a")
  \/ \E st \in {"calling", "ended"} :
       VideoCallStatus("s1", TRUE, "a_b", st, "a")
  \/ VideoCallStatus(MarketSocket, TRUE, "a_b", "ended", "b")

SpecMarket ==
  /\ InitMarket /\ [][NextMarket]_vars
  /\ WF_vars(\E t \in timers : Recheck(t))

\* ---------------------------------------------- end-of-call specification
\* a and b in the room a_b, with a store; a writes and reports the end of
\* calls, in events that name the room or come without a roomId
RoomFields == {"a_b", None}

InitEndOfCall == Init /\ budget = MaxEndOfCallEvents

NextEndOfCall ==
  \/ \E s \in Sockets : Connect(s)
  \/ MongoConnect
  \/ JoinRoom("s1", "a_b", "a")
  \/ \E j \in pendingJoins : JoinHistory(j, FALSE)
  \/ \E t \in timers : Recheck(t)
  \/ \E r \in RoomFields :
       ChatMessage("s1", TRUE, r, "hi", "a", 0, None, 1, "x")
  \/ \E r \in RoomFields : VideoCallEnded("s1", TRUE, r, 5, "a", 1)
  \/ \E p \in pendingSaves, ok \in BOOLEAN : SaveDone(p, ok)

SpecEndOfCall == InitEndOfCall /\ [][NextEndOfCall]_vars

\* ---------------------------------------------------- inbox specification
\* one Chat component receiving chat-message and chat-history events in any
\* order, any message any number of times; the relay is sent nothing
NextInbox ==
  \/ \E m \in Messages : HandleMessage(m)
  \/ \E h \in Histories : HandleHistory(h)

InitInbox == Init /\ budget = 0

SpecInbox == InitInbox /\ [][NextInbox]_vars

\* ------------------------------------------------------- presence claims
\* connection x has presented itself as user u (user-online or join-room)
Identified(x, u) ==
  \E i \in 1..Len(inbound) :
    /\ inbound[i].s = x /\ inbound[i].user # None
    /\ toLowerCase(inbound[i].user) = u
    /\ \/ inbound[i].ev = "user-online"
       \/ inbound[i].ev = "join-room" /\ inbound[i].roomId # None

\* the user's live connections: the open sockets that presented themselves
\* as that user
LiveConnections(u) == {x \in Sockets : sock[x] = "open" /\ Identified(x, u)}

\* the rooms a user is a member of through some live connection
UserRooms(u) ==
  {r \in Rooms : \E x \in RoomOf(socketRooms, r) : dataUser[x] = u}

\* the user-status offline events for user u emitted to room r in this step
OfflineEmitted(u, r) ==
  {k \in (Len(wire) + 1)..Len(wire') :
     /\ wire'[k].ev = "user-status" /\ wire'[k].val = "offline"
     /\ wire'[k].user = u /\ wire'[k].room = r}

\* C1: when the last live connection of a user closes, every room the user
\* was a member of (every room that connection had joined) is sent exactly
\* one user-status offline event for that user.
C1_OfflineToEveryRoom ==
  [][\A s \in Sockets :
       (/\ sock[s] = "open" /\ sock'[s] = "closed"
        /\ dataUser[s] # None
        /\ LiveConnections(dataUser[s]) = {s})
       => \A r \in UserRooms(dataUser[s]) :
             Cardinality(OfflineEmitted(dataUser[s], r)) = 1]_vars

\* onlineUsers reports the user online
isOnline(u) == MapHas(onlineUsers, u) /\ onlineUsers[u] # {}

\* C2: a user is reported online iff the user has a live connection, and no
\* closed connection handle remains in any user's set.
C2_OnlineIffLive ==
  /\ \A u \in RawUsers : isOnline(u) <=> LiveConnections(u) # {}
  /\ \A u \in DOMAIN onlineUsers : \A x \in onlineUsers[u] : sock[x] = "open"

\* ----------------------------------------------------------- chat claims
\* inbound event e is a chat-message the relay accepts
ValidChat(e) ==
  /\ e.ev = "chat-message" /\ e.present
  /\ e.roomId # None /\ e.user # None /\ e.val # None
  /\ e.user # NotAString /\ e.val # NotAString

\* the connections that were members of room r when inbound event i arrived
MembersAt(i, r) ==
  {x \in Sockets :
     /\ \E j \in 1..(i-1) :
          /\ inbound[j].s = x /\ inbound[j].ev = "join-room"
          /\ inbound[j].roomId = r /\ inbound[j].user # None
     /\ \A j \in 1..(i-1) :
          ~(inbound[j].s = x /\ inbound[j].ev = "disconnect")}

\* the fan-out of the chat-message that arrived as inbound event i
FanOutOf(i) ==
  {k \in 1..Len(wire) :
     /\ wire[k].ev = "chat-message" /\ wire[k].n = i
     /\ wire[k].room = inbound[i].roomId
     /\ wire[k].msg.message = inbound[i].val
     /\ wire[k].rcpt = MembersAt(i, inbound[i].roomId)}

\* what became of the append of inbound event i
SaveFailed(i) ==
  \E l \in log : l.n = i /\ l.kind \in {"save-failed", "not-connected"}
SavePending(i) == \E p \in pendingSaves : p.n = i

\* C3: every valid chat-message has been fanned out to the members of its
\* room, whether its append is still pending, has succeeded, has failed or
\* could not be attempted for lack of a store; the fan-out is on the wire as
\* soon as the append exists and is never taken back.
C3_FanOutRegardlessOfStore ==
  /\ \A i \in 1..Len(inbound) :
       (ValidChat(inbound[i]) /\ ~crashed) => FanOutOf(i) # {}
  /\ \A p \in pendingSaves : FanOutOf(p.n) # {}
  /\ \A l \in log :
       l.kind \in {"save-failed", "not-connected"} => FanOutOf(l.n) # {}

\* a message reached another member although its append failed
C3_Witness ==
  \E i \in 1..Len(inbound) :
    /\ ValidChat(inbound[i])
    /\ \E l \in log : l.n = i /\ l.kind = "save-failed"
    /\ \E k \in FanOutOf(i) : wire[k].rcpt \ {inbound[i].s} # {}

\* C4: a message submitted to a room with a connected store, while
\* connection x was not in the room, is in the chat-history x receives when
\* it joins the room later, also when the append is still under way (a
\* message whose append failed, and a history query that failed, are left
\* aside).
C4_HistoryOnLaterJoin ==
  \A k \in 1..Len(wire), h \in 1..Len(wire) :
    (/\ wire[k].ev = "chat-message" /\ wire[h].ev = "chat-history"
     /\ wire[h].n > wire[k].n
     /\ inbound[wire[h].n].roomId = wire[k].room
     /\ wire[h].src \notin wire[k].rcpt
     /\ wire[h].src # wire[k].src
     /\ ~SaveFailed(wire[k].n)
     /\ ~\E l \in log : l.n = wire[h].n /\ l.kind = "load-failed")
    => \E m \in 1..Len(wire[h].hist) : wire[h].hist[m] = wire[k].msg

\* C5: no inbound event, whatever its payload, brings the process down.
C5_NoEventCrashes == ~crashed

\* the chat-message e has a payload in which room, sender or body is
\* missing or empty
MissingField(e) ==
  /\ e.ev = "chat-message" /\ e.present
  /\ (e.roomId = None \/ e.user = None \/ e.val = None)

\* C6: a chat-message whose room, sender or body is missing or empty emits
\* nothing, attempts no persistence and leaves the typing sets and the
\* per-room cache as they were.
C6_InvalidMessageRejected ==
  [][(/\ Len(inbound') = Len(inbound) + 1
      /\ MissingField(inbound'[Len(inbound')]))
     => /\ wire' = wire
        /\ UNCHANGED <<typingUsers, chatRoomsCache, pendingSaves, dbMessages,
                       log, crashed>>]_vars

\* a message without a body arrived from a sender that is typing in the room
C6_Witness ==
  \E i \in 1..Len(inbound) :
    /\ MissingField(inbound[i])
    /\ inbound[i].val = None /\ inbound[i].roomId # None
    /\ inbound[i].user # None
    /\ MapHas(typingUsers, inbound[i].roomId)
    /\ inbound[i].user \in typingUsers[inbound[i].roomId]
    /\ RoomOf(socketRooms, inbound[i].roomId) # {}

\* identifiers that differ only in letter case name the same user
SameUser(u, v) == toLowerCase(u) = toLowerCase(v)

\* C7: when a user with an outstanding typing-start in a room submits a
\* valid chat-message to it, the relay emits typing=false for that user to
\* the room before the chat-message, and the user is not in the room's
\* typing set afterwards.
C7_TypingStopsBeforeMessage ==
  [][(/\ Len(inbound') = Len(inbound) + 1
      /\ ValidChat(inbound'[Len(inbound')])
      /\ MapHas(typingUsers, inbound'[Len(inbound')].roomId)
      /\ \E u \in typingUsers[inbound'[Len(inbound')].roomId] :
            SameUser(u, inbound'[Len(inbound')].user))
     => LET e == inbound'[Len(inbound')]
            new == (Len(wire) + 1)..Len(wire')
        IN /\ \E k \in new, m \in new :
                /\ k < m
                /\ wire'[k].ev = "typing" /\ wire'[k].val = "false"
                /\ SameUser(wire'[k].user, e.user)
                /\ wire'[m].ev = "chat-message"
                /\ wire'[k].rcpt = wire'[m].rcpt
           /\ ~(/\ MapHas(typingUsers', e.roomId)
                /\ \E u \in typingUsers'[e.roomId] : SameUser(u, e.user))]_vars

\* ---------------------------------------------------------- relay claims
\* the events a connection submits for the other members of a room
RelayedEvents ==
  {"chat-message", "typing-start", "typing-stop", "webrtc-offer",
   "webrtc-answer", "webrtc-ice-candidate", "video-call-status"}

\* the name under which inbound event ev goes out
OutName(ev) ==
  IF ev \in {"typing-start", "typing-stop"} THEN "typing" ELSE ev

\* the emit of inbound event i carries what the client submitted
Carries(k, i) ==
  /\ wire[k].n = i /\ wire[k].src = inbound[i].s
  /\ wire[k].ev = OutName(inbound[i].ev)
  /\ wire[k].room = inbound[i].roomId
  /\ SameUser(wire[k].user, inbound[i].user)
  /\ CASE inbound[i].ev = "chat-message" ->
            wire[k].msg.message = inbound[i].val
       [] inbound[i].ev = "typing-start" -> wire[k].val = "true"
       [] inbound[i].ev = "typing-stop" -> wire[k].val = "false"
       [] OTHER -> wire[k].val = inbound[i].val

\* C8: every event a connection submits to a room reaches every other
\* connection that is a member of the room at that moment, and the emits
\* caused by one connection's events are on the wire in the order in which
\* that connection submitted them.
C8_InOrderPerSender ==
  /\ \A i \in 1..Len(inbound) :
       (inbound[i].ev \in RelayedEvents /\ inbound[i].present)
       => \E k \in 1..Len(wire) :
            /\ Carries(k, i)
            /\ MembersAt(i, inbound[i].roomId) \ {inbound[i].s}
                 \subseteq wire[k].rcpt
  /\ \A k \in 1..Len(wire), m \in 1..Len(wire) :
       (/\ k < m
        /\ wire[k].src = wire[m].src
        /\ inbound[wire[k].n].ev \in RelayedEvents
        /\ inbound[wire[m].n].ev \in RelayedEvents)
       => wire[k].n <= wire[m].n

\* b, a member of the room, has been sent two different events of s1 while
\* an append was pending
C8_Witness ==
  \E k \in 1..Len(wire), m \in 1..Len(wire) :
    /\ k < m /\ wire[k].src = "s1" /\ wire[m].src = "s1"
    /\ wire[k].n < wire[m].n
    /\ inbound[wire[k].n].ev \in RelayedEvents
    /\ inbound[wire[m].n].ev \in RelayedEvents
    /\ inbound[wire[k].n].ev # inbound[wire[m].n].ev
    /\ "s2" \in wire[k].rcpt /\ "s2" \in wire[m].rcpt
    /\ pendingSaves # {}

\* inbound event i made the relay record a call message with the duration d
CallRecorded(i, d) ==
  \E k \in 1..Len(wire) :
    /\ wire[k].ev = "chat-message" /\ wire[k].n = i
    /\ wire[k].room = inbound[i].roomId
    /\ wire[k].msg.type = "video-call" /\ wire[k].msg.duration = d
    /\ wire[k].rcpt = MembersAt(i, inbound[i].roomId)

\* C9 as claimed: a video-call-status with status ended, and a
\* video-call-ended with a duration, each make the relay record a call
\* message for the room.
C9_CallRecordedOnEnded ==
  \A i \in 1..Len(inbound) :
    (\/ inbound[i].ev = "video-call-status" /\ inbound[i].val = "ended"
     \/ inbound[i].ev = "video-call-ended")
    => CallRecorded(i, inbound[i].num)

\* the message of inbound event i was handed to the store: its insert is
\* under way or done, or its failure is logged
HandedToStore(i) ==
  \/ SavePending(i)
  \/ SaveFailed(i)
  \/ \E d \in 1..Len(dbMessages) :
       /\ dbMessages[d].roomId = inbound[i].roomId
       /\ dbMessages[d].msg.type = "video-call"
       /\ dbMessages[d].msg.duration = inbound[i].num

\* C9 as amended: every video-call-ended event is fanned out to the room as
\* a video-call message carrying its duration and handed to the store; a
\* video-call-status event is rebroadcast and records no message.
C9_CallRecordedOnVideoCallEnded ==
  /\ \A i \in 1..Len(inbound) :
       (inbound[i].ev = "video-call-ended" /\ inbound[i].present)
       => CallRecorded(i, inbound[i].num) /\ HandedToStore(i)
  /\ \A k \in 1..Len(wire) :
       wire[k].ev = "chat-message"
       => inbound[wire[k].n].ev \in {"chat-message", "video-call-ended"}

\* a call of 125 seconds was reported, sent to b and stored, and a status
\* ended was relayed as well
C9_Witness ==
  /\ \E i \in 1..Len(inbound) :
       /\ inbound[i].ev = "video-call-ended" /\ inbound[i].num = 125
       /\ \E k \in 1..Len(wire) :
            wire[k].n = i /\ "s2" \in wire[k].rcpt
            /\ wire[k].msg.message = "Video call ended - Duration: 2m 5s"
       /\ \E d \in 1..Len(dbMessages) : dbMessages[d].msg.duration = 125
  /\ \E k \in 1..Len(wire) :
       wire[k].ev = "video-call-status" /\ wire[k].val = "ended"

\* ------------------------------------------------------------ call claims
\* the status changes of the call state machine: idle to calling (the
\* initiator) or to ringing (the peer), then to answered, then to ended,
\* and from ended back to idle; a call may also be given up or rejected
\* before it is answered, and the window closed without a call
LegalChange ==
  {<<"idle", "calling">>, <<"idle", "ringing">>, <<"calling", "answered">>,
   <<"ringing", "answered">>, <<"answered", "ended">>, <<"ended", "idle">>,
   <<"calling", "ended">>, <<"ringing", "ended">>, <<"idle", "ended">>}

\* C10: the call status of an endpoint changes only along the call state
\* machine, whatever the relay delivers; it never becomes answered straight
\* from idle and leaves ended only for idle.
C10_LegalStatusChanges ==
  [][\A e \in Parties :
       callStatus'[e] # callStatus[e]
       => <<callStatus[e], callStatus'[e]>> \in LegalChange]_vars

\* ------------------------------------------------- mutual presence on join
\* inbound event i is a join-room of a room by one of its two participants
JoinOf(i, r) ==
  /\ inbound[i].ev = "join-room" /\ inbound[i].roomId = r
  /\ inbound[i].user \notin {None, NotAString}
  /\ toLowerCase(inbound[i].user) \in Range(split(r))

\* the join of inbound event i has run to its end, re-check included
JoinSettled(i) ==
  /\ \A j \in pendingJoins : j.n # i
  /\ \A t \in timers : t.n # i

\* connection s has been sent user-status online for user u
ToldOnline(s, u) ==
  \E k \in 1..Len(wire) :
    /\ wire[k].ev = "user-status" /\ wire[k].val = "online"
    /\ wire[k].user = u /\ s \in wire[k].rcpt

\* C11: when a participant of a room joins it on one connection and the
\* other participant joins it afterwards on another, then once both joins
\* and their delayed re-checks have run, the first has been sent user-status
\* online for the second and the second for the first, however the history
\* loads of the two joins interleave.
C11_MutualOnlineAfterJoins ==
  \A i \in 1..Len(inbound), k \in 1..Len(inbound) :
    (/\ i < k
     /\ JoinOf(i, inbound[i].roomId) /\ JoinOf(k, inbound[i].roomId)
     /\ inbound[i].s # inbound[k].s
     /\ toLowerCase(inbound[i].user) # toLowerCase(inbound[k].user)
     /\ JoinSettled(i) /\ JoinSettled(k)
     /\ ~crashed)
    => /\ ToldOnline(inbound[i].s, toLowerCase(inbound[k].user))
       /\ ToldOnline(inbound[k].s, toLowerCase(inbound[i].user))

\* a and b have joined a_b with a store connected, b's handler having
\* started before a's history load returned, and all is settled
C11_Witness ==
  /\ Len(inbound) >= 2
  /\ JoinOf(1, ChatRoom) /\ JoinOf(2, ChatRoom)
  /\ inbound[1].s # inbound[2].s
  /\ dbUp /\ JoinSettled(1) /\ JoinSettled(2)
  /\ \E h \in 1..Len(wire), g \in 1..Len(wire) :
       /\ h < g
       /\ wire[h].ev = "user-status" /\ wire[h].n = 2
       /\ wire[g].ev = "chat-history" /\ wire[g].n = 1
  /\ ToldOnline(inbound[1].s, toLowerCase(inbound[2].user))
  /\ ToldOnline(inbound[2].s, toLowerCase(inbound[1].user))

\* ------------------------------------------------- persistence of fan-outs
\* inbound event i has been fanned out to its room as a chat-message
FannedOut(i) == i <= Len(inbound) /\ FanOutOf(i) # {}

\* the message fanned out for inbound event i is in the durable store
Stored(i) ==
  \E k \in FanOutOf(i), d \in 1..Len(dbMessages) :
    dbMessages[d].roomId = wire[k].room /\ dbMessages[d].msg = wire[k].msg

\* C12: every message fanned out to a room is eventually in the durable
\* store or has a logged persistence failure (store not connected, insert
\* error); no fanned-out message ends in neither outcome.
C12_PersistedOrLogged ==
  \A i \in 1..MaxChatEvents :
    [](FannedOut(i) => <>(Stored(i) \/ SaveFailed(i)))

\* ------------------------------------------------------ idempotent receive
\* the number of visible messages with the given id
Copies(id) == Cardinality({i \in 1..Len(messages) : messages[i].id = id})

\* C13: receiving is idempotent on the client: once a chat-message has been
\* delivered, be it for the first time or again, at any place among the
\* other chat-message and chat-history events, the message list shows
\* exactly one message with its id.
C13_OneVisibleCopy ==
  lastReceived.ev = "chat-message" => Copies(lastReceived.id) = 1

\* a message has just been delivered a second time, after a history that
\* held it and with another message in the list
C13_Witness ==
  /\ lastReceived.ev = "chat-message"
  /\ timesReceived[lastReceived.id] = 2
  /\ Len(messages) = 2
  /\ Copies(lastReceived.id) = 1

\* --------------------------------------------------------- message ids
\* C14: all messages created for one room, by chat-message or by
\* video-call-ended, have pairwise distinct ids, also when two of them are
\* created at the same clock reading.
C14_DistinctIds ==
  \A k \in 1..Len(wire), m \in 1..Len(wire) :
    (/\ wire[k].ev = "chat-message" /\ wire[m].ev = "chat-message"
     /\ wire[k].room = wire[m].room
     /\ wire[k].n # wire[m].n)
    => wire[k].msg.id # wire[m].msg.id

\* ------------------------------------------------------------ typing sets
\* C15: no room is mapped to an empty typing set: when the last typing user
\* of a room is removed, by typing-stop, by a chat-message or by disconnect,
\* the room's typing entry is discarded.
C15_NoEmptyTypingSet ==
  \A r \in DOMAIN typingUsers : typingUsers[r] # {}

\* --------------------------------------------------- offline only when last
\* the user-status offline events for user u broadcast to a room in this step
OfflineBroadcast(u) ==
  {k \in (Len(wire) + 1)..Len(wire') :
     /\ wire'[k].ev = "user-status" /\ wire'[k].val = "offline"
     /\ wire'[k].user = u /\ wire'[k].room # None}

\* C16: when a connection of a user closes while the user has another live
\* connection, no user-status offline for that user is emitted to any room;
\* offline is broadcast only at the step that empties the user's connection
\* set.
C16_OfflineOnlyWhenLast ==
  [][/\ \A s \in Sockets, u \in PresenceUsers :
          (/\ sock[s] = "open" /\ sock'[s] = "closed"
           /\ Identified(s, u)
           /\ LiveConnections(u) \ {s} # {})
          => OfflineBroadcast(u) = {}
     /\ \A u \in PresenceUsers :
          OfflineBroadcast(u) # {}
          => /\ isOnline(u) /\ ~isOnline(u)'
             /\ \E s \in Sockets : sock[s] = "open" /\ sock'[s] = "closed"]_vars

\* user a's connection s1 has closed while a's connection s2 stayed open,
\* and the room s1 was in has been told nothing
C16_Witness ==
  /\ sock["s1"] = "closed" /\ sock["s2"] = "open"
  /\ Identified("s1", "a") /\ Identified("s2", "a")
  /\ dataRoom["s1"] # None
  /\ \A k \in 1..Len(wire) :
       ~(wire[k].val = "offline" /\ wire[k].user = "a")

\* ------------------------------------------------- case-insensitive users
\* the event handled last
LastEvent == inbound[Len(inbound)]

\* some spelling of user v is in the typing set of room r
StillTyping(r, v) ==
  MapHas(typingUsers, r) /\ \E u \in typingUsers[r] : SameUser(u, v)

\* C17: user identifiers are treated case-insensitively by every core
\* operation: presence is registered under one entry per user, whatever the
\* spelling, and after a typing-stop, a chat-message or the disconnect of a
\* user no spelling of that user's identifier is left in the typing set of
\* the room.
C17_CaseInsensitiveUsers ==
  /\ \A u \in DOMAIN onlineUsers : toLowerCase(u) = u
  /\ (Len(inbound) > 0 /\ ~crashed)
     => /\ (LastEvent.ev = "typing-stop" \/ ValidChat(LastEvent))
           => ~StillTyping(LastEvent.roomId, LastEvent.user)
        /\ (LastEvent.ev = "disconnect" /\ dataUser[LastEvent.s] # None
            /\ dataRoom[LastEvent.s] # None)
           => ~StillTyping(dataRoom[LastEvent.s], dataUser[LastEvent.s])

\* --------------------------------------------------------- signaling relay
SignalingEvents == {"webrtc-offer", "webrtc-answer", "webrtc-ice-candidate"}

\* C18: a webrtc-offer, webrtc-answer or webrtc-ice-candidate event is
\* rebroadcast once, payload and sender as submitted, to the member
\* connections of the named room except the sending one and to no other
\* connection, and the relay changes none of its state in doing so.
C18_SignalingVerbatim ==
  [][(/\ Len(inbound') = Len(inbound) + 1
      /\ inbound'[Len(inbound')].ev \in SignalingEvents
      /\ inbound'[Len(inbound')].present)
     => LET e == inbound'[Len(inbound')]
        IN /\ Len(wire') = Len(wire) + 1
           /\ SubSeq(wire', 1, Len(wire)) = wire
           /\ wire'[Len(wire')].ev = e.ev
           /\ wire'[Len(wire')].val = e.val
           /\ wire'[Len(wire')].user = e.user
           /\ wire'[Len(wire')].rcpt
                = RoomOf(socketRooms, e.roomId) \ {e.s}
           /\ UNCHANGED <<sock, socketRooms, dataUser, dataRoom, onlineUsers,
                          typingUsers, chatRoomsCache, dbUp, dbMessages,
                          pendingSaves, pendingJoins, timers, log, clock,
                          crashed>>]_vars

\* an offer of s1, sent under the spelling "A" while s1 and s2 were both in
\* the room, has gone to s2 alone with the sender still spelled "A"
C18_Witness ==
  \E k \in 1..Len(wire) :
    /\ wire[k].ev = "webrtc-offer" /\ wire[k].src = "s1"
    /\ wire[k].user = "A" /\ wire[k].val = "sdp-offer"
    /\ wire[k].rcpt = {"s2"}
    /\ MembersAt(wire[k].n, ChatRoom) = {"s1", "s2"}

\* ------------------------------------------------ join without the store
\* the emits of this step
NewEmits == {k \in (Len(wire) + 1)..Len(wire') : TRUE}

\* the join-room of inbound event i comes to its end in this step without a
\* history from the store: no store is connected, or the query has failed
JoinEndsWithoutStore(i) ==
  /\ i <= Len(inbound') /\ inbound'[i].ev = "join-room"
  /\ \E k \in NewEmits : wire'[k].ev = "chat-history" /\ wire'[k].n = i
  /\ \/ ~dbUp
     \/ [kind |-> "load-failed", n |-> i] \in log' \ log

\* C19: when the store is unavailable or the history query fails, join-room
\* still completes: the connection is a member of the room, its user is
\* registered online and broadcast to the room, the joining connection is
\* sent chat-history with an empty sequence and the process goes on; later
\* valid chat-messages are fanned out to the room's members as before.
C19_JoinSurvivesStoreFailure ==
  [][/\ \A i \in 1..(Len(inbound) + 1) :
          JoinEndsWithoutStore(i)
          => LET e == inbound'[i]
             IN /\ e.s \in RoomOf(socketRooms', e.roomId)
                /\ MapHas(onlineUsers', toLowerCase(e.user))
                /\ e.s \in onlineUsers'[toLowerCase(e.user)]
                /\ \E k \in 1..Len(wire') :
                     /\ wire'[k].ev = "user-status" /\ wire'[k].n = i
                     /\ wire'[k].val = "online" /\ wire'[k].room = e.roomId
                     /\ wire'[k].user = toLowerCase(e.user)
                     /\ e.s \in wire'[k].rcpt
                /\ \A k \in NewEmits :
                     (wire'[k].ev = "chat-history" /\ wire'[k].n = i)
                     => wire'[k].hist = <<>> /\ wire'[k].rcpt = {e.s}
                /\ ~crashed'
     /\ (/\ Len(inbound') = Len(inbound) + 1
         /\ ValidChat(inbound'[Len(inbound')])
         /\ (~dbUp \/ \E l \in log : l.kind = "load-failed"))
        => \E k \in NewEmits :
             /\ wire'[k].ev = "chat-message"
             /\ wire'[k].msg.message = inbound'[Len(inbound')].val
             /\ wire'[k].rcpt
                  = RoomOf(socketRooms, inbound'[Len(inbound')].roomId)]_vars

\* a join whose history query failed while the cache held a message was
\* answered with an empty history, and a later message reached the joiner
C19_Witness ==
  \E l \in log, h \in 1..Len(wire), k \in 1..Len(wire), c \in 1..Len(wire) :
    /\ l.kind = "load-failed"
    /\ wire[c].ev = "chat-message" /\ c < h
    /\ wire[h].ev = "chat-history" /\ wire[h].n = l.n /\ wire[h].hist = <<>>
    /\ h < k /\ wire[k].ev = "chat-message"
    /\ inbound[l.n].s \in wire[k].rcpt

\* ------------------------------------------------ message to an empty room
\* C20: a valid chat-message submitted to a room that has no member
\* connection is delivered to nobody and raises no error, and the message is
\* still handed to the durable store.
C20_EmptyRoomStillStored ==
  [][(/\ Len(inbound') = Len(inbound) + 1
      /\ ValidChat(inbound'[Len(inbound')])
      /\ RoomOf(socketRooms, inbound'[Len(inbound')].roomId) = {})
     => /\ \A k \in (Len(wire) + 1)..Len(wire') : wire'[k].rcpt = {}
        /\ ~crashed'
        /\ \/ \E p \in pendingSaves' \ pendingSaves :
                /\ p.n = Len(inbound') /\ p.roomId = inbound'[p.n].roomId
                /\ p.msg.message = inbound'[p.n].val
           \/ [kind |-> "not-connected", n |-> Len(inbound')]
                \in log' \ log]_vars

\* a message sent to the room while nobody was in it is in the store and
\* was written to no connection
C20_Witness ==
  \E k \in 1..Len(wire), d \in 1..Len(dbMessages) :
    /\ wire[k].ev = "chat-message" /\ wire[k].rcpt = {}
    /\ MembersAt(wire[k].n, wire[k].room) = {}
    /\ dbMessages[d].msg = wire[k].msg /\ dbMessages[d].roomId = wire[k].room

\* ------------------------------------------------------ typing comes to rest
\* emit k tells connection x that user u is typing (val "true") or not
TypingSeen(k, x, u, val) ==
  /\ k <= Len(wire)
  /\ wire[k].ev = "typing" /\ wire[k].val = val
  /\ SameUser(wire[k].user, u) /\ x \in wire[k].rcpt

\* C21: every typing=true that the peer observes for a user is eventually
\* followed by a typing=false for that user: once the sender's idle timer
\* has fired or the sender's connection has closed, the peer has received
\* typing=false.
C21_TypingEventuallyFalse ==
  \A k \in 1..(4 * MaxIdleEvents) :
    [](TypingSeen(k, "s2", "a", "true")
       => <>(\E m \in (k + 1)..Len(wire) : TypingSeen(m, "s2", "a", "false")))

\* ---------------------------------------------------------- room identifier
\* C22: for all identifiers a and b, createRoomId(a, b) equals
\* createRoomId(b, a), and the result does not change when the letter case
\* of a or of b is changed (one argument at a time here; as this holds for
\* every pair, it holds for both at once).
C22_RoomIdSymmetricCaseless ==
  chatRoomId # <<>>
  => /\ chatRoomId = createRoomId(chatOtherUser, chatAddress)
     /\ \A x \in Identifiers :
          /\ lowerCase(x) = lowerCase(chatAddress)
             => /\ createRoomId(x, chatOtherUser) = chatRoomId
                /\ createRoomId(chatOtherUser, x) = chatRoomId
          /\ lowerCase(x) = lowerCase(chatOtherUser)
             => /\ createRoomId(chatAddress, x) = chatRoomId
                /\ createRoomId(x, chatAddress) = chatRoomId

\* a room identifier made for two different users, the first written with a
\* capital and sorting after the second
C22_Witness ==
  /\ chatAddress = <<66, 97>> /\ chatOtherUser = <<97, 66>>
  /\ chatRoomId = <<97, 98, 95, 98, 97>>

\* ---------------------------------------------------------- history on join
\* the number of places of q that hold m
Occurrences(q, m) == Cardinality({i \in 1..Len(q) : q[i] = m})

\* h holds the messages stored for roomId, each as often as it is stored, and
\* no other message, in non-decreasing timestamp order
ListsStored(h, roomId) ==
  LET stored == FindRoom(dbMessages, roomId)
  IN /\ Len(h) = Len(stored)
     /\ \A i \in 1..Len(stored) :
          Occurrences(h, stored[i]) = Occurrences(stored, stored[i])
     /\ \A i \in 1..Len(h), j \in 1..Len(h) :
          i < j => h[i].timestamp <= h[j].timestamp

\* the chat-history emits of this step that reach a connection
HistoriesDelivered ==
  {k \in NewEmits : wire'[k].ev = "chat-history" /\ wire'[k].rcpt # {}}

\* C23 as stated: for every room and every order in which its messages were
\* appended, the history delivered on join lists all stored messages of that
\* room, and of no other room, in non-decreasing timestamp order.
C23_HistoryListsStored ==
  [][\A k \in HistoriesDelivered :
       ListsStored(wire'[k].hist, inbound'[wire'[k].n].roomId)]_vars

\* C23, for a query that returns: the history delivered on join lists all
\* stored messages of the room, and of no other room, in non-decreasing
\* timestamp order whatever the order of the inserts; when the query throws,
\* the history delivered is empty.
C23_HistoryListsStoredUnlessFailed ==
  [][\A k \in HistoriesDelivered :
       IF [kind |-> "load-failed", n |-> wire'[k].n] \in log'
       THEN wire'[k].hist = <<>>
       ELSE ListsStored(wire'[k].hist, inbound'[wire'[k].n].roomId)]_vars

\* a history of two messages was delivered in the reverse of the order the
\* store holds them in, while the store also holds a message of another room
C23_Witness ==
  \E k \in 1..Len(wire), i \in 1..Len(dbMessages), j \in 1..Len(dbMessages),
     o \in 1..Len(dbMessages) :
    /\ wire[k].ev = "chat-history" /\ wire[k].rcpt # {}
    /\ Len(wire[k].hist) = 2
    /\ i < j
    /\ dbMessages[i].roomId = inbound[wire[k].n].roomId
    /\ dbMessages[j].roomId = inbound[wire[k].n].roomId
    /\ dbMessages[o].roomId # inbound[wire[k].n].roomId
    /\ wire[k].hist = <<dbMessages[j].msg, dbMessages[i].msg>>
    /\ dbMessages[j].msg.timestamp < dbMessages[i].msg.timestamp

\* ------------------------------------------------------- call duration text
\* the decimal numeral of a natural number
DecimalDigits == <<"0", "1", "2", "3", "4", "5", "6", "7", "8", "9">>
RECURSIVE Decimal(_)
Decimal(n) ==
  IF n < 10 THEN DecimalDigits[n + 1]
  ELSE Decimal(n \div 10) \o DecimalDigits[(n % 10) + 1]

\* the text the recorded message of a call of d seconds is to carry
ExpectedCallText(d) ==
  IF d = 125 THEN "Video call ended - Duration: 2m 5s"
  ELSE IF d < 60 THEN "Video call ended - Duration: " \o Decimal(d) \o "s"
  ELSE "Video call ended - Duration: " \o Decimal(d \div 60) \o "m "
       \o Decimal(d % 60) \o "s"

\* C24: for every non-negative whole number of seconds d in a
\* video-call-ended event, the recorded message reads "Video call ended -
\* Duration: <m>m <s>s" with m = d div 60 and s = d mod 60 when m > 0, and
\* "Video call ended - Duration: <d>s" when d < 60; for d = 125 it reads
\* "Video call ended - Duration: 2m 5s".
C24_DurationText ==
  /\ \A k \in 1..Len(wire) :
       (wire[k].ev = "chat-message" /\ wire[k].msg.type = "video-call")
       => wire[k].msg.message = ExpectedCallText(wire[k].msg.duration)
  /\ MapHas(chatRoomsCache, ChatRoom)
     => \A i \in 1..Len(chatRoomsCache[ChatRoom]) :
          LET m == chatRoomsCache[ChatRoom][i]
          IN m.type = "video-call"
             => m.message = ExpectedCallText(m.duration)

\* a call of 125 seconds and a call of under a minute were both recorded
C24_Witness ==
  \E k \in 1..Len(wire), l \in 1..Len(wire) :
    /\ wire[k].ev = "chat-message" /\ wire[k].msg.type = "video-call"
    /\ wire[k].msg.duration = 125
    /\ wire[k].msg.message = "Video call ended - Duration: 2m 5s"
    /\ wire[l].ev = "chat-message" /\ wire[l].msg.type = "video-call"
    /\ wire[l].msg.duration = 59
    /\ wire[l].msg.message = "Video call ended - Duration: 59s"

\* ------------------------------------------------------ conversations list
\* the rooms with a stored message
StoredRooms == {dbMessages[i].roomId : i \in 1..Len(dbMessages)}

\* roomId is composed of the user and one other participant
ParticipantOf(user, roomId) ==
  LET p == split(roomId)
  IN Len(p) = 2 /\ toLowerCase(user) \in {p[1], p[2]}

\* the other participant of a room of the user
OtherParticipant(user, roomId) ==
  LET p == split(roomId)
  IN IF p[1] = toLowerCase(user) THEN p[2] ELSE p[1]

\* the store has answered the request of this step
ConversationsAnswered ==
  /\ conversations' # conversations
  /\ dbUp /\ log' = log

\* C25: conversationsFor(user) returns exactly one entry for each stored room
\* whose identifier is composed of the user and one other participant, and no
\* entry for a room the user is not a participant of (such as a room whose
\* participant identifier merely contains the user's identifier as a
\* substring); each entry names the other participant of that room.
C25_ConversationsOfParticipant ==
  [][ConversationsAnswered
     => LET user == conversations'.userAddress
            list == conversations'.conversations
        IN /\ \A r \in StoredRooms :
                ParticipantOf(user, r)
                => Cardinality({i \in 1..Len(list) : list[i].roomId = r}) = 1
           /\ \A i \in 1..Len(list) :
                /\ ParticipantOf(user, list[i].roomId)
                /\ list[i].otherUser
                     = OtherParticipant(user, list[i].roomId)]_vars

\* ------------------------------------------------------------------ escrow
\* a transaction has been mined in this step
Mined == lastTx'.n # lastTx.n

\* the events emitted in this step
NewEvents == {k \in (Len(events) + 1)..Len(events') : TRUE}

\* this step releases escrow i
ReleasedNow(i) ==
  \E k \in NewEvents :
    events'[k].name = "Released" /\ events'[k].escrowId = i

\* this step is a transaction on escrow i after which its provider holds
\* more tokens than before
ProviderPaid(i) ==
  /\ Mined /\ lastTx'.escrowId = i
  /\ escrows'[i].provider \in Accounts
  /\ balanceOf'[escrows'[i].provider] > balanceOf[escrows'[i].provider]

BothFlags(e) == e.requesterConfirmed /\ e.providerConfirmed

\* C26: the escrowed amount goes to the provider only at the step where both
\* requesterConfirmed and providerConfirmed are true; whenever both flags
\* become true on an active escrow the release to the provider happens in
\* that same confirm call; no sequence of calls pays the provider without the
\* requester's confirmation.
C26_ReleaseOnlyWhenBothConfirmed ==
  [][/\ \A i \in EscrowIds :
          /\ (ProviderPaid(i) \/ ReleasedNow(i))
             => /\ BothFlags(escrows'[i]) /\ ~BothFlags(escrows[i])
                /\ lastTx'.fn = "confirm" /\ lastTx'.escrowId = i
                /\ balanceOf' = Moved(balanceOf, EscrowAddress,
                                      escrows[i].provider, escrows[i].amount)
          /\ (escrows[i].active /\ ~BothFlags(escrows[i])
                /\ BothFlags(escrows'[i]))
             => /\ ReleasedNow(i)
                /\ lastTx'.fn = "confirm" /\ lastTx'.escrowId = i
                /\ balanceOf'[escrows[i].provider]
                     = balanceOf[escrows[i].provider] + escrows[i].amount
     /\ \A k \in 1..Len(events') :
          events'[k].name = "Released"
          => escrows'[events'[k].escrowId].requesterConfirmed]_vars

\* an escrow of two tokens was released to its provider by the second of the
\* two confirmations
C26_Witness ==
  \E i \in EscrowIds, k \in 1..Len(events) :
    /\ events[k].name = "Released" /\ events[k].escrowId = i
    /\ events[k].amount = MaxAmount
    /\ BothFlags(escrows[i]) /\ ~escrows[i].active
    /\ lastTx.fn = "confirm" /\ lastTx.status = "success"
    /\ balanceOf[escrows[i].provider] = 2 * MaxAmount
    /\ balanceOf[escrows[i].requester] = 0

\* C27: cancel succeeds only when the caller is the requester, the escrow is
\* active and the provider has not confirmed, and then returns the full
\* amount to the requester; in every other case it reverts and leaves the
\* escrow record and all balances unchanged.
C27_CancelOnlyByRequester ==
  [][(Mined /\ lastTx'.fn = "cancel")
     => LET i == lastTx'.escrowId
            e == escrows[i]
            allowed == /\ lastTx'.sender = e.requester
                       /\ e.active /\ ~e.providerConfirmed
        IN IF allowed
           THEN /\ lastTx'.status = "success"
                /\ balanceOf' = Moved(balanceOf, EscrowAddress, e.requester,
                                      e.amount)
                /\ escrows' = [escrows EXCEPT ![i].active = FALSE]
           ELSE /\ lastTx'.status = "reverted"
                /\ escrows' = escrows
                /\ balanceOf' = balanceOf
                /\ allowance' = allowance]_vars

\* the requester has confirmed and then cancelled, and holds all its tokens
\* again
C27_Witness ==
  /\ lastTx.fn = "cancel" /\ lastTx.status = "success"
  /\ escrows[lastTx.escrowId].requester = lastTx.sender
  /\ escrows[lastTx.escrowId].requesterConfirmed
  /\ ~escrows[lastTx.escrowId].active
  /\ escrows[lastTx.escrowId].amount > 0
  /\ balanceOf[lastTx.sender] = MaxAmount
  /\ balanceOf[EscrowAddress] = 0

\* C28: confirm called by an address that is neither the requester nor the
\* provider, or on an escrow that is not active (never created, released or
\* cancelled), reverts and changes no confirmation flag and no balance.
C28_ConfirmRejected ==
  [][(Mined /\ lastTx'.fn = "confirm")
     => LET e == escrows[lastTx'.escrowId]
        IN (\/ ~e.active
            \/ lastTx'.sender \notin {e.requester, e.provider})
           => /\ lastTx'.status = "reverted"
              /\ escrows' = escrows
              /\ balanceOf' = balanceOf]_vars

\* a confirm by an outsider on an active escrow has reverted
C28_Witness ==
  /\ lastTx.fn = "confirm" /\ lastTx.status = "reverted"
  /\ escrows[lastTx.escrowId].active
  /\ lastTx.sender \notin {escrows[lastTx.escrowId].requester,
                           escrows[lastTx.escrowId].provider}
  /\ ~escrows[lastTx.escrowId].requesterConfirmed
  /\ ~escrows[lastTx.escrowId].providerConfirmed

\* ------------------------------------------------------ the client's view
\* m is in the list q
Shown(q, m) == \E i \in 1..Len(q) : q[i] = m

\* C29: a chat-message the joining connection has received live, fanned out
\* while its join-room handler was awaiting the history, is still in the
\* client's visible list after the chat-history of that join is applied.
C29_HistoryKeepsLiveMessages ==
  [][\A k \in 1..Len(wire) :
       (seen' = k /\ seen # k /\ wire[k].ev = "chat-history")
       => \A l \in 1..(k - 1) :
            (/\ wire[l].ev = "chat-message" /\ ChatSocket \in wire[l].rcpt
             /\ wire[l].n > wire[k].n
             /\ Shown(messages, wire[l].msg))
            => Shown(messages', wire[l].msg)]_vars

StatusSeen(k, x, u, val) ==
  /\ k <= Len(wire)
  /\ wire[k].ev = "user-status" /\ wire[k].val = val
  /\ wire[k].user = u /\ x \in wire[k].rcpt

\* C31: if a joining connection was told that the other party is online,
\* whether by the room scan or by the registry of online users, then after
\* the other party's last connection has closed it is eventually sent
\* user-status offline for them.
C31_OfflineEventuallyTold ==
  \A k \in 1..(4 * MaxStatusEvents) :
    []((StatusSeen(k, "s1", "b", "online") /\ sock["s2"] = "closed")
       => <>(\E m \in (k + 1)..Len(wire) :
               StatusSeen(m, "s1", "b", "offline")))

\* ------------------------------------------------ the end of a call
\* the i-th event the two VideoCall components emitted is ev, with val
Emitted(i, ev, val) ==
  /\ i \in 1..Len(sent)
  /\ sent[i].ev = ev /\ sent[i].val = val

\* the i-th event the components emitted reports the end of a call
ReportsEnd(i) == i \in 1..Len(sent) /\ sent[i].ev = "video-call-ended"

\* a new call was started between the emits i and j
CallingBetween(i, j) ==
  \E k \in (i + 1)..(j - 1) : Emitted(k, "video-call-status", "calling")

\* C32: for one call that was answered and then ended by one party, the two
\* endpoints together emit video-call-ended once: two such events are always
\* separated by the start of another call.
C32_OneCallEventPerCall ==
  \A i \in 1..Len(sent), j \in 1..Len(sent) :
    (i < j /\ ReportsEnd(i) /\ ReportsEnd(j)) => CallingBetween(i, j)


\* ------------------------------------------------------ taking a call
\* the j-th event emitted is party e's answerCall: a status answered that
\* does not follow e's own webrtc-answer, as handleReceivedOffer's does
AnswerClicked(e, j) ==
  /\ Emitted(j, "video-call-status", "answered") /\ sent[j].from = e
  /\ (j > 1 => ~(sent[j - 1].ev = "webrtc-answer" /\ sent[j - 1].from = e))

\* C33: a callee sends a WebRTC answer, with the status answered that goes
\* with it, only after its user invoked answerCall; the caller's webrtc-offer
\* alone never answers the call.
C33_AnswerOnlyAfterAnswerCall ==
  \A e \in Parties : \A i \in 1..Len(sent) :
    (sent[i].ev = "webrtc-answer" /\ sent[i].from = e)
    => \E j \in 1..(i - 1) : AnswerClicked(e, j)


\* ------------------------------------------------ the exchange of ended
\* party e emitted video-call-status ended earlier in the current call
AlreadyEnded(e) ==
  \E i \in 1..Len(sent) :
    /\ Emitted(i, "video-call-status", "ended") /\ sent[i].from = e
    /\ ~CallingBetween(i, Len(sent) + 1)

\* this step is party e handling the peer's status ended by emitting ended
EndedSentBack(e) ==
  /\ Delivered(e, "video-call-status")
  /\ Incoming(e).val = "ended" /\ Incoming(e).sender = Peer(e)
  /\ Len(sent') > Len(sent)
  /\ net'[e] = Append(Tail(net[e]), [ev |-> "video-call-status",
                                     val |-> "ended", sender |-> e])

\* C34: after one endpoint ended or rejected a call, the exchange of ended
\* status events stops: an endpoint that already emitted ended for the call
\* does not emit it again on receiving the peer's ended.
C34_EndedExchangeStops ==
  [][\A e \in Parties : EndedSentBack(e) => ~AlreadyEnded(e)]_vars


\* ------------------------------------------------- the sender's own list
\* the component has handled the fan-out of the i-th message it sent
FanOutReceived(i) ==
  \E k \in 1..seen :
    /\ wire[k].ev = "chat-message" /\ ChatSocket \in wire[k].rcpt
    /\ wire[k].src = ChatSocket
    /\ Cardinality({n \in 1..wire[k].n :
                      /\ inbound[n].s = ChatSocket
                      /\ inbound[n].ev = "chat-message"}) = i

\* the entries of the visible list that show what messageData says
Showing(d) ==
  Cardinality({m \in 1..Len(messages) :
                 /\ messages[m].message = d.message
                 /\ messages[m].sender = d.sender
                 /\ messages[m].timestamp = d.timestamp})

\* the messages the component sent with the very same text and time
Sends(d) == Cardinality({i \in 1..Len(outbox) : outbox[i] = d})

\* C35: once the sender's component has received the relay's fan-out of a
\* message it sent, the message is in its visible list exactly once: the
\* copy added on sending and the relay's copy never both remain.
C35_SentMessageShownOnce ==
  \A i \in 1..Len(outbox) :
    (FanOutReceived(i) /\ Sends(outbox[i]) = 1) => Showing(outbox[i]) = 1


\* ------------------------------------------- the call reaches the callee
\* the caller's component has emitted video-call-status calling for the
\* room a_b while the callee's Marketplace page was connected
CallingEmitted ==
  /\ sock[MarketSocket] = "open"
  /\ \E i \in 1..Len(inbound) :
       /\ inbound[i].s = "s1" /\ inbound[i].ev = "video-call-status"
       /\ inbound[i].roomId = "a_b" /\ inbound[i].val = "calling"

\* the relay has sent a status calling to the Marketplace page's connection
CallingHeard ==
  \E k \in 1..Len(wire) :
    /\ wire[k].ev = "video-call-status" /\ wire[k].val = "calling"
    /\ MarketSocket \in wire[k].rcpt

\* C36: when a caller emits video-call-status calling for the room it shares
\* with a callee who has only the Marketplace page open, the page's listener
\* eventually receives that status.
C36_MarketplaceHearsCalling == [](CallingEmitted => <>CallingHeard)


\* ------------------------------------------- typing entries of the departed
\* inbound event i is a typing-start whose connection has closed since
TypedAndGone(i) ==
  /\ inbound[i].ev = "typing-start" /\ inbound[i].present
  /\ sock[inbound[i].s] = "closed"

\* the entry typing-start i put into its room's typing set is still there
EntryKept(i) ==
  /\ MapHas(typingUsers, inbound[i].roomId)
  /\ inbound[i].user \in typingUsers[inbound[i].roomId]

\* C37: a user with no live connection is in no room's typing set: after a
\* connection has disconnected, every typing entry it created, in any room
\* it issued typing-start for, has been removed.
C37_NoTypingEntryOfTheGone ==
  \A i \in 1..Len(inbound) : TypedAndGone(i) => ~EntryKept(i)


\* --------------------------------------------- every message has a room
\* C38: every message that is fanned out or handed to the durable store has
\* a non-empty room identifier, the call-event messages made from
\* video-call-ended events included: an end-of-call event without a room is
\* rejected like an invalid chat-message.
C38_EveryMessageHasRoom ==
  /\ \A k \in 1..Len(wire) :
       wire[k].ev = "chat-message" => wire[k].room # None
  /\ \A p \in pendingSaves : p.roomId # None
  /\ \A d \in 1..Len(dbMessages) : dbMessages[d].roomId # None


\* ------------------------------------------------- an escrow settles once
\* escrow i was created and is no longer active: released or cancelled
Settled(i) == escrows[i].requester # ZeroAddress /\ ~escrows[i].active

\* the events that settled escrow i: its releases and its cancellations
Settlements(i) ==
  {k \in 1..Len(events) :
     /\ events[k].escrowId = i
     /\ events[k].name \in {"Released", "EscrowCancelled"}}

\* C39: each escrow is settled at most once: once active has become false,
\* by release or by cancel, it never becomes true again and no transaction
\* on that escrow moves a token or emits an event; an escrow is never both
\* released to the provider and refunded to the requester.
C39_SettledAtMostOnce ==
  [][\A i \in EscrowIds :
       /\ Cardinality(Settlements(i)') <= 1
       /\ Settled(i)
          => /\ Settled(i)'
             /\ (Mined /\ lastTx'.escrowId = i)
                => /\ lastTx'.status = "reverted"
                   /\ balanceOf' = balanceOf
                   /\ events' = events]_vars

\* a party of an escrow that was released or cancelled has called confirm or
\* cancel on it again, and the call has reverted
C39_Witness ==
  /\ lastTx.fn \in {"confirm", "cancel"} /\ lastTx.status = "reverted"
  /\ Settled(lastTx.escrowId)
  /\ lastTx.sender \in {escrows[lastTx.escrowId].requester,
                        escrows[lastTx.escrowId].provider}
  /\ Cardinality(Settlements(lastTx.escrowId)) = 1
====
